---- MODULE Spec2Model ----
(***************************************************************************)
(* A model of drode: the Drone adapter's retrying HTTP call (Drone.get)    *)
(* and the services built on the adapter (services.wait, services.promote).*)
(* The Drone server is the environment: it owns the build history and      *)
(* answers each request.                                                   *)
(***************************************************************************)
EXTENDS Integers, Sequences, FiniteSets, TLC

VARIABLES
    \* ---- Drone.get (src/src/drode/adapters/drone.py:128-169)
    getPc,        \* "idle" | "loop" | "returned" | "raised"
    getUrl,       \* the url argument
    getMethod,    \* the method argument
    retry,        \* the local retry counter
    response,     \* the local response variable; Unbound until a request answers
    attempts,     \* the outcome of every HTTP request issued, in order
    getResult,    \* the response returned or the exception raised
    \* ---- the Drone server
    builds,       \* the pipeline's builds; builds[n] is the build numbered n
    \* ---- what the services do to their collaborators
    apiCalls,     \* the adapter calls issued, in order, each with its outcome
    sleeps,       \* the number of time.sleep(1) calls
    log,          \* the log.info messages, in order
    \* ---- services.wait (src/src/drode/services.py:19-63)
    waitPc,       \* "idle" | "poll" | "sleeping" | "returned" | "raised"
    waitPipeline, \* the project_pipeline argument
    waitArg,      \* the build_number argument, NoNumber for None
    build_number, \* the local build_number
    first_time,   \* the local first_time
    waitResult,   \* the value returned or the exception raised
    waitReturns,  \* how many times wait returned
    \* ---- services.promote (src/src/drode/services.py:128-169)
    promPc,       \* "idle" | "asking" | "returned" | "raised"
    promArg,      \* the build_number argument, NoNumber for None
    environment,  \* the environment argument
    promBuild,    \* the local build
    promNumber,   \* the local build_number
    promResult,   \* the value returned or the exception raised
    askLog,       \* the calls of ask: the operator's input and the answer
    \* ---- one call of a method of the Drone adapter
    \*      (src/src/drode/adapters/drone.py:86-211)
    droneOp,      \* the method, its arguments and the requests it issued
    droneResult,  \* the value returned or the exception raised
    \* ---- the configuration and the AWS adapter
    \*      (src/src/drode/services.py:175-199, adapters/aws.py:27-123)
    config,       \* the configuration that was loaded
    fleet,        \* the names of the autoscaling groups that exist
    awsCalls,     \* the calls of the AWS adapter, in order, with outcome
    statusResult, \* what project_status returned or raised
    \* ---- one command of the command line
    \*      (src/src/drode/entrypoints/cli.py:78-132)
    cliCmd,       \* the command and its arguments, None before it runs
    cliExit,      \* the exit status, NoNumber while there is none
    cliRaised,    \* the exception that left the command, None if none
    cliOut,       \* what the command printed
    \* ---- the configuration file and the services of the active project
    \*      (src/src/drode/config.py:117-137, services.py:66-113)
    configFile,   \* the YAML document at config_path, None before a run
    configLog,    \* the calls made on the configuration, with outcome
    \* ---- the HTTP requests of one adapter call
    \*      (src/src/drode/adapters/drone.py:145-169)
    outstanding,  \* the requests sent and not yet answered or failed
    callPc,       \* the adapter call in progress, None when there is none
    \* ---- AWS.get_autoscaling_group (src/src/drode/adapters/aws.py:47-123)
    described,    \* the AutoScalingGroups of describe_auto_scaling_groups
    groupResult   \* the AutoscalerInfo returned or the exception raised

getVars == <<getPc, getUrl, getMethod, retry, response, attempts, getResult>>
serverVars == <<builds>>
ioVars == <<apiCalls, sleeps, log>>
waitVars == <<waitPc, waitPipeline, waitArg, build_number, first_time,
              waitResult, waitReturns>>

promVars == <<promPc, promArg, environment, promBuild, promNumber, promResult,
              askLog>>

droneVars == <<droneOp, droneResult>>

\* The variables of the parts above the services and below them.
fleetVars == <<config, fleet, awsCalls, statusResult>>
cliVars == <<cliCmd, cliExit, cliRaised, cliOut>>
storeVars == <<configFile, configLog>>
wireVars == <<outstanding, callPc>>
groupVars == <<described, groupResult>>
restVars ==
    <<droneVars, fleetVars, cliVars, storeVars, wireVars, groupVars>>

vars == <<getVars, serverVars, ioVars, waitVars, promVars, restVars>>

\* ------------------------------------------------------------------------
\* Values
\* ------------------------------------------------------------------------

\* Python's None where a record is expected, and a local variable that was
\* never assigned.
None == [kind |-> "None"]
Unbound == [kind |-> "Unbound"]

Urls == {"http://url", "https://drone.url/api/user/repos"}
Methods == {"get", "post"}

\* Status codes a request may answer with, and the bodies of a 200 answer.
StatusCodes == {200, 401, 404}
Texts == {"hi", "OK"}

\* What one HTTP request can do: answer with a response, or raise a
\* requests.exceptions.RequestException.
Responses ==
    { [kind |-> "response", status_code |-> c, text |-> t] :
        c \in StatusCodes, t \in Texts }
RequestException == [kind |-> "RequestException"]
AttemptOutcomes == Responses \cup {RequestException}

\* ------------------------------------------------------------------------
\* Drone.get
\* ------------------------------------------------------------------------

\* Mutant of max_retries: one more pass of the loop.
max_retries_6 == 5 + 1
\* drone.py:129
max_retries == 5

\* Mutant of IsSuccess: the wrong status code is taken for the success.
IsSuccess_401(resp) == resp.status_code = 401
\* drone.py:159
IsSuccess(resp) == resp.status_code = 200

\* The exception raised once the retries are exhausted (drone.py:167-169).
\* Evaluating response.status_code with response never assigned raises
\* UnboundLocalError instead of building the DroneAPIError.
APIError(resp, url) ==
    IF resp = Unbound
    THEN [kind |-> "UnboundLocalError"]
    ELSE [kind |-> "DroneAPIError",
          status_code |-> resp.status_code, url |-> url]

GetIdle ==
    /\ getPc = "idle" /\ getUrl = "" /\ getMethod = "" /\ retry = 0
    /\ response = Unbound /\ attempts = <<>> /\ getResult = None

\* Drone.get is called: retry = 0 and the loop is entered (drone.py:145-146).
GetCall(url, method) ==
    /\ getPc = "idle"
    /\ getPc' = "loop"
    /\ getUrl' = url
    /\ getMethod' = method
    /\ retry' = 0
    /\ response' = Unbound
    /\ attempts' = <<>>
    /\ getResult' = None

\* One pass of the while loop (drone.py:146-165) and, when the pass leaves
\* retry = max_retries, the raise that follows the loop (drone.py:167-169).
GetAttempt(outcome) ==
    /\ getPc = "loop"
    /\ retry < max_retries
    /\ attempts' = Append(attempts, outcome)
    /\ UNCHANGED <<getUrl, getMethod>>
    /\ IF outcome.kind = "response"
       THEN /\ response' = outcome
            /\ IF IsSuccess(outcome)
               THEN /\ getPc' = "returned"
                    /\ getResult' = outcome
                    /\ retry' = retry
               ELSE /\ retry' = retry + 1
                    /\ IF retry + 1 < max_retries
                       THEN getPc' = "loop" /\ getResult' = getResult
                       ELSE /\ getPc' = "raised"
                            /\ getResult' = APIError(outcome, getUrl)
       ELSE /\ response' = response
            /\ retry' = retry + 1
            /\ IF retry + 1 < max_retries
               THEN getPc' = "loop" /\ getResult' = getResult
               ELSE /\ getPc' = "raised"
                    /\ getResult' = APIError(response, getUrl)

\* ------------------------------------------------------------------------
\* The Drone server: the builds of one pipeline
\* ------------------------------------------------------------------------

MaxBuilds == 2

Pipeline == "owner/repository"
Events == {"push", "promote"}
Targets == {"master", "feat/1"}
TerminalStatuses == {"success", "failure", "killed"}
FinishedAt == 1591129124

\* A build record is a dictionary: the keys the server sends are its DOMAIN.
\* A build that has not started has no "finished" key; a pending or running
\* one has finished = 0 (tests/unit/services/test_wait.py:123-131).
Has(build, key) == key \in DOMAIN build
SetKey(build, key, value) ==
    [k \in DOMAIN build \cup {key} |-> IF k = key THEN value ELSE build[k]]

\* The commit of every build: its sha, one character per element.
Sha == <<"9", "f", "c", "1", "a", "d", "6", "e", "b", "f">>

NewBuild(n, event, target) ==
    [id |-> n, number |-> n, status |-> "pending", event |-> event,
     trigger |-> "trigger_author", source |-> target, target |-> target,
     after |-> Sha, message |-> "updated README", started |-> 0]

\* The time at which every build starts.
StartedAt == 1591128214

ServerEmpty == builds = <<>>

\* A build is created, not started yet.
ServerCreate(event, target) ==
    /\ Len(builds) < MaxBuilds
    /\ builds' = Append(builds, NewBuild(Len(builds) + 1, event, target))

\* A build starts running: finished appears, with 0.
ServerStart(n) ==
    /\ n \in 1..Len(builds)
    /\ ~Has(builds[n], "finished")
    /\ builds' = [builds EXCEPT
                    ![n] = SetKey(SetKey(SetKey(@, "status", "running"),
                                         "started", StartedAt),
                                  "finished", 0)]

\* A running build finishes with a terminal status.
ServerFinish(n, status) ==
    /\ n \in 1..Len(builds)
    /\ Has(builds[n], "finished")
    /\ builds[n].finished = 0
    /\ builds' = [builds EXCEPT
                    ![n] = SetKey(SetKey(@, "status", status),
                                  "finished", FinishedAt)]

Server ==
    \/ \E event \in Events, target \in Targets : ServerCreate(event, target)
    \/ \E n \in 1..MaxBuilds : ServerStart(n)
    \/ \E n \in 1..MaxBuilds, status \in TerminalStatuses : ServerFinish(n, status)

\* ------------------------------------------------------------------------
\* The Drone adapter as the services see it: each call answers with a build
\* record or raises. The services index the record as a dictionary
\* (build["finished"], services.py:38,49), so the answer is the dictionary of
\* the keys the server sent for the build.
\* ------------------------------------------------------------------------

IsError(x) == Has(x, "kind")

DroneBuildError(pipeline, n) ==
    [kind |-> "DroneBuildError", build |-> n, pipeline |-> pipeline]
DroneAPIError == [kind |-> "DroneAPIError"]
IndexError == [kind |-> "IndexError"]
KeyError == [kind |-> "KeyError"]

\* Drone.build_info: the record of build n, or DroneBuildError when the
\* requests fail or the build does not exist.
BuildInfoOutcomes(pipeline, n) ==
    {DroneBuildError(pipeline, n)} \cup
    (IF pipeline = Pipeline /\ n \in 1..Len(builds) THEN {builds[n]} ELSE {})

\* Drone.last_build_info: position 0 of the history, which the server sends
\* newest first; get's DroneAPIError when the requests fail; IndexError on
\* an empty history.
LastBuildInfoOutcomes(pipeline) ==
    {DroneAPIError} \cup
    (IF pipeline # Pipeline THEN {}
     ELSE IF Len(builds) = 0 THEN {IndexError}
     ELSE {builds[Len(builds)]})

Call(op, pipeline, n, outcome) ==
    [op |-> op, pipeline |-> pipeline, number |-> n, outcome |-> outcome]

IoIdle == apiCalls = <<>> /\ sleeps = 0 /\ log = <<>>

\* ------------------------------------------------------------------------
\* services.wait
\* ------------------------------------------------------------------------

MaxPolls == 3

\* build_number = None
NoNumber == -1

WaitIdle ==
    /\ waitPc = "idle" /\ waitPipeline = "" /\ waitArg = NoNumber
    /\ build_number = NoNumber
    /\ first_time = TRUE /\ waitResult = None /\ waitReturns = 0

\* Mutants of WaitBody.
\* A pending build is reported and the wait returns without sleeping.
WaitBody_nosleep(build, bn, first) ==
    IF ~Has(build, "finished")
    THEN [next |-> "return", first_time |-> first,
          logs |-> <<[msg |-> "not_started", number |-> bn]>>]
    ELSE [next |-> "return", first_time |-> first,
          logs |-> <<[msg |-> "finished", number |-> build.number,
                      status |-> build.status]>>]
\* A build without the finished key is polled again, like a pending one.
WaitBody_absent_pending(build, bn, first) ==
    IF ~Has(build, "finished") \/ build.finished = 0
    THEN [next |-> "sleep", first_time |-> FALSE,
          logs |-> IF first
                   THEN <<[msg |-> "waiting", number |-> build.number,
                           event |-> build.event, trigger |-> build.trigger]>>
                   ELSE <<>>]
    ELSE [next |-> "return", first_time |-> first,
          logs |-> <<[msg |-> "finished", number |-> build.number,
                      status |-> build.status]>>]

\* first_time is never cleared.
WaitBody_keepfirst(build, bn, first) ==
    IF ~Has(build, "finished")
    THEN [next |-> "return", first_time |-> first,
          logs |-> <<[msg |-> "not_started", number |-> bn]>>]
    ELSE IF build.finished = 0
    THEN [next |-> "sleep", first_time |-> first,
          logs |-> IF first
                   THEN <<[msg |-> "waiting", number |-> build.number,
                           event |-> build.event, trigger |-> build.trigger]>>
                   ELSE <<>>]
    ELSE [next |-> "return", first_time |-> first,
          logs |-> <<[msg |-> "finished", number |-> build.number,
                      status |-> build.status]>>]

\* The wait gives up at the second poll that finds the build pending.
WaitBody_giveup(build, bn, first) ==
    IF ~Has(build, "finished")
    THEN [next |-> "return", first_time |-> first,
          logs |-> <<[msg |-> "not_started", number |-> bn]>>]
    ELSE IF build.finished = 0
    THEN IF first
         THEN [next |-> "sleep", first_time |-> FALSE,
               logs |-> <<[msg |-> "waiting", number |-> build.number,
                           event |-> build.event,
                           trigger |-> build.trigger]>>]
         ELSE [next |-> "return", first_time |-> first, logs |-> <<>>]
    ELSE [next |-> "return", first_time |-> first,
          logs |-> <<[msg |-> "finished", number |-> build.number,
                      status |-> build.status]>>]

\* The body of the loop after the build was fetched (services.py:48-63):
\* what is logged, whether the loop sleeps and goes on or returns True, and
\* the new first_time. A KeyError anywhere in the try block is reported as
\* "has not started yet".
WaitBody(build, bn, first) ==
    LET notStarted == [next |-> "return", first_time |-> first,
                       logs |-> <<[msg |-> "not_started", number |-> bn]>>]
    IN
    IF ~Has(build, "finished") THEN notStarted
    ELSE IF build.finished = 0
    THEN IF first
         THEN IF Has(build, "number") /\ Has(build, "event")
                                      /\ Has(build, "trigger")
              THEN [next |-> "sleep", first_time |-> FALSE,
                    logs |-> <<[msg |-> "waiting", number |-> build.number,
                                event |-> build.event,
                                trigger |-> build.trigger]>>]
              ELSE notStarted
         ELSE [next |-> "sleep", first_time |-> first, logs |-> <<>>]
    ELSE IF Has(build, "number") /\ Has(build, "status")
         THEN [next |-> "return", first_time |-> first,
               logs |-> <<[msg |-> "finished", number |-> build.number,
                           status |-> build.status]>>]
         ELSE notStarted

\* Mutant of WaitReturnValue: wait certifies success, not completion.
WaitReturnValue_status(build) ==
    Has(build, "status") /\ build.status = "success"
\* services.py:63
WaitReturnValue(build) == TRUE

\* Mutant of PolledNumber: every poll asks for the newest build.
PolledNumber_latest == Len(builds)
\* The build number of the build_info call in the loop (services.py:46).
PolledNumber == build_number

\* Mutant of NoActiveJob: the test is inverted.
NoActiveJob_inverted(last_build) == last_build.finished = 0
\* The latest build is already finished (services.py:38).
NoActiveJob(last_build) == last_build.finished # 0

\* wait is called (services.py:36-44). Without a build number the latest
\* build is fetched: a finished one ends the wait, else its number is the
\* target.
WaitCall(pipeline, arg, outcome) ==
    /\ waitPc = "idle"
    /\ waitPipeline' = pipeline
    /\ waitArg' = arg
    /\ UNCHANGED sleeps
    /\ IF arg # NoNumber
       THEN /\ outcome = None
            /\ build_number' = arg
            /\ first_time' = TRUE
            /\ waitPc' = "poll"
            /\ UNCHANGED <<apiCalls, log, waitResult, waitReturns>>
       ELSE /\ outcome \in LastBuildInfoOutcomes(pipeline)
            /\ apiCalls' = Append(apiCalls,
                   Call("last_build_info", pipeline, NoNumber, outcome))
            /\ IF IsError(outcome)
               THEN /\ waitPc' = "raised"
                    /\ waitResult' = outcome
                    /\ UNCHANGED <<build_number, first_time, log, waitReturns>>
               ELSE IF ~Has(outcome, "finished")
               THEN /\ waitPc' = "raised"
                    /\ waitResult' = KeyError
                    /\ UNCHANGED <<build_number, first_time, log, waitReturns>>
               ELSE IF NoActiveJob(outcome)
               THEN /\ waitPc' = "returned"
                    /\ waitResult' = [kind |-> "value", value |-> TRUE]
                    /\ waitReturns' = waitReturns + 1
                    /\ log' = Append(log, [msg |-> "no_active_jobs"])
                    /\ UNCHANGED <<build_number, first_time>>
               ELSE /\ waitPc' = "poll"
                    /\ build_number' = outcome.number
                    /\ first_time' = TRUE
                    /\ UNCHANGED <<log, waitResult, waitReturns>>

\* Mutant of WaitPoll: whatever build_info gives or raises ends the wait
\* with True.
WaitPoll_swallow(outcome) ==
    /\ waitPc = "poll"
    /\ Len(apiCalls) < MaxPolls
    /\ outcome \in BuildInfoOutcomes(waitPipeline, PolledNumber)
    /\ apiCalls' = Append(apiCalls,
           Call("build_info", waitPipeline, PolledNumber, outcome))
    /\ waitPc' = "returned"
    /\ waitResult' = [kind |-> "value", value |-> TRUE]
    /\ waitReturns' = waitReturns + 1
    /\ UNCHANGED <<waitPipeline, waitArg, build_number, first_time, sleeps,
                   log>>
\* One pass of the loop (services.py:45-63): the build is fetched, then the
\* wait either starts a one second sleep or returns. An exception of
\* build_info leaves wait.
WaitPoll(outcome) ==
    /\ waitPc = "poll"
    /\ Len(apiCalls) < MaxPolls
    /\ outcome \in BuildInfoOutcomes(waitPipeline, PolledNumber)
    /\ apiCalls' = Append(apiCalls,
           Call("build_info", waitPipeline, PolledNumber, outcome))
    /\ UNCHANGED <<waitPipeline, waitArg, build_number>>
    /\ IF IsError(outcome)
       THEN /\ waitPc' = "raised"
            /\ waitResult' = outcome
            /\ UNCHANGED <<sleeps, log, first_time, waitReturns>>
       ELSE LET body == WaitBody(outcome, build_number, first_time) IN
            /\ log' = log \o body.logs
            /\ first_time' = body.first_time
            /\ IF body.next = "sleep"
               THEN /\ waitPc' = "sleeping"
                    /\ sleeps' = sleeps + 1
                    /\ UNCHANGED <<waitResult, waitReturns>>
               ELSE /\ waitPc' = "returned"
                    /\ waitResult' = [kind |-> "value",
                                      value |-> WaitReturnValue(outcome)]
                    /\ waitReturns' = waitReturns + 1
                    /\ UNCHANGED sleeps

\* time.sleep(1) is over (services.py:56-57): back to the top of the loop.
WaitWake ==
    /\ waitPc = "sleeping"
    /\ waitPc' = "poll"
    /\ UNCHANGED <<waitPipeline, waitArg, build_number, first_time,
                   waitResult, waitReturns, ioVars>>

\* The loop keeps nothing of a poll but first_time (services.py:44-46): the
\* record of the oldest call is dropped when MaxPolls calls are on record,
\* and with it the sleep that followed it.
WaitForget ==
    /\ waitPc = "poll"
    /\ Len(apiCalls) = MaxPolls
    /\ apiCalls' = Tail(apiCalls)
    /\ sleeps' = (IF /\ apiCalls[1].op = "build_info"
                     /\ ~IsError(apiCalls[1].outcome)
                     /\ Has(apiCalls[1].outcome, "finished")
                     /\ apiCalls[1].outcome.finished = 0
                  THEN sleeps - 1 ELSE sleeps)
    /\ UNCHANGED <<waitVars, log>>

\* ------------------------------------------------------------------------
\* services.promote
\* ------------------------------------------------------------------------

Environments == {"production", "staging"}

\* What the operator may type at the prompt.
Answers == {"yes", "y", "Y", "YES", "", "no"}

PromoteIdle ==
    /\ promPc = "idle" /\ promArg = NoNumber /\ environment = ""
    /\ promBuild = None /\ promNumber = NoNumber /\ promResult = None
    /\ askLog = <<>>

\* Mutant of ask: the input is compared without regard to case.
ask_anycase(answer) == answer \in {"yes", "y", "YES", "Y"}
\* services.ask (services.py:116-125): the operator's input is an answer.
ask(answer) == answer \in {"yes", "y"}

\* GET /api/repos/<pipeline>/builds answers with the builds newest first.
RECURSIVE Reverse(_)
Reverse(seq) ==
    IF seq = <<>> THEN <<>> ELSE Append(Reverse(Tail(seq)), Head(seq))

build_history == Reverse(builds)

\* Mutant of Matches: the target branch is not looked at.
Matches_nobranch(build, branch) ==
    /\ build.status = "success"
    /\ build.event = "push"
\* Mutant of Matches: the event is not looked at.
Matches_anyevent(build, branch) ==
    /\ build.status = "success"
    /\ build.target = branch
\* The condition of the scan (drone.py:203-207).
Matches(build, branch) ==
    /\ build.status = "success"
    /\ build.target = branch
    /\ build.event = "push"

\* Drone.last_success_build_info (drone.py:202-211): the history is scanned
\* in the order of the answer and the first match is returned.
RECURSIVE last_success_build_info(_, _)
last_success_build_info(history, branch) ==
    IF history = <<>>
    THEN [kind |-> "DroneBuildError", branch |-> branch]
    ELSE IF Matches(Head(history), branch)
         THEN Head(history)
         ELSE last_success_build_info(Tail(history), branch)

LastSuccessOutcomes(pipeline) ==
    {DroneAPIError} \cup
    (IF pipeline = Pipeline
     THEN {last_success_build_info(build_history, "master")} ELSE {})

\* Drone.promote (drone.py:227-234): the server creates the promote build
\* and answers with it, or the requests fail.
PromoteBuild(n, env) ==
    [id |-> Len(builds) + 1, number |-> Len(builds) + 1,
     status |-> "pending", event |-> "promote",
     trigger |-> "trigger_author", source |-> builds[n].source,
     target |-> builds[n].target,
     after |-> builds[n].after, message |-> builds[n].message,
     started |-> 0, finished |-> 0, parent |-> n, deploy_to |-> env]

PromoteOutcomes(pipeline, n) ==
    {DroneAPIError} \cup
    (IF pipeline = Pipeline /\ n \in 1..Len(builds)
     THEN {[kind |-> "value", value |-> Len(builds) + 1]} ELSE {})

\* Mutant of CanPromote: the status is not looked at.
CanPromote_any(build) == TRUE
\* Mutant of CanPromote: only a failed build is refused.
CanPromote_notfailure(build) == build.status # "failure"
\* services.py:156
CanPromote(build) == build.status = "success"

\* Mutant of Confirmed: the answer is not looked at.
Confirmed_any(answer) == TRUE
\* Mutant of Confirmed: the answer is taken the wrong way round.
Confirmed_negated(answer) == ~answer
\* services.py:167
Confirmed(answer) == answer

Take(seq, n) == SubSeq(seq, 1, IF Len(seq) < n THEN Len(seq) ELSE n)

\* Mutant of PromoteCall: what the adapter raises is taken for the build,
\* and promote goes on to the prompt.
PromoteCall_unchecked(env, arg, outcome) ==
    /\ promPc = "idle"
    /\ promArg' = arg
    /\ environment' = env
    /\ outcome \in (IF arg = NoNumber THEN LastSuccessOutcomes(Pipeline)
                                     ELSE BuildInfoOutcomes(Pipeline, arg))
    /\ apiCalls' = Append(apiCalls,
           Call(IF arg = NoNumber THEN "last_success_build_info"
                                  ELSE "build_info", Pipeline, arg, outcome))
    /\ promPc' = "asking"
    /\ promBuild' = outcome
    /\ promNumber' = (IF arg = NoNumber THEN 1 ELSE arg)
    /\ UNCHANGED <<sleeps, askLog, promResult, log>>

\* promote is called (services.py:150-166): the build is resolved or
\* fetched, its status is validated and the summary is logged; promote then
\* stops at the prompt.
PromoteCall(env, arg, outcome) ==
    /\ promPc = "idle"
    /\ promArg' = arg
    /\ environment' = env
    /\ outcome \in (IF arg = NoNumber THEN LastSuccessOutcomes(Pipeline)
                                     ELSE BuildInfoOutcomes(Pipeline, arg))
    /\ apiCalls' = Append(apiCalls,
           Call(IF arg = NoNumber THEN "last_success_build_info"
                                  ELSE "build_info", Pipeline, arg, outcome))
    /\ UNCHANGED <<sleeps, askLog>>
    /\ IF IsError(outcome)
       THEN /\ promPc' = "raised"
            /\ promResult' = outcome
            /\ UNCHANGED <<promBuild, promNumber, log>>
       ELSE /\ promBuild' = outcome
            /\ promNumber' = (IF arg = NoNumber THEN outcome.number ELSE arg)
            /\ IF ~CanPromote(outcome)
               THEN /\ promPc' = "raised"
                    /\ promResult' = [kind |-> "DronePromoteError",
                                      build |-> promNumber',
                                      environment |-> env,
                                      status |-> outcome.status]
                    /\ log' = log
               ELSE /\ promPc' = "asking"
                    /\ promResult' = promResult
                    /\ log' = Append(log,
                           [msg |-> "about_to_promote", number |-> promNumber',
                            pipeline |-> Pipeline, environment |-> env,
                            commit |-> Take(outcome.after, 8),
                            message |-> outcome.message])

\* The operator answers the prompt (services.py:167-169): on a confirmation
\* Drone.promote is called and its build number returned, else None.
PromoteAnswer(answer, outcome) ==
    /\ promPc = "asking"
    /\ askLog' = Append(askLog, [input |-> answer, answer |-> ask(answer)])
    /\ UNCHANGED <<promArg, environment, promBuild, promNumber, sleeps, log>>
    /\ IF Confirmed(ask(answer))
       THEN /\ outcome \in PromoteOutcomes(Pipeline, promNumber)
            /\ apiCalls' = Append(apiCalls,
                   [op |-> "promote", pipeline |-> Pipeline,
                    number |-> promNumber, environment |-> environment,
                    outcome |-> outcome])
            /\ IF outcome = DroneAPIError
               THEN /\ promPc' = "raised"
                    /\ promResult' = outcome
                    /\ builds' = builds
               ELSE /\ promPc' = "returned"
                    /\ promResult' = outcome
                    /\ builds' = Append(builds,
                                        PromoteBuild(promNumber, environment))
       ELSE /\ outcome = None
            /\ promPc' = "returned"
            /\ promResult' = None
            /\ UNCHANGED <<apiCalls, builds>>

\* ------------------------------------------------------------------------
\* The Drone adapter over HTTP (drone.py:29-211)
\* ------------------------------------------------------------------------

\* The urls the adapter builds (drone.py:94,118,181,199).
UserReposUrl == [path |-> "/api/user/repos"]
BuildUrl(pipeline, n) ==
    [path |-> "/api/repos/<pipeline>/builds/<n>", pipeline |-> pipeline,
     number |-> n]
BuildsUrl(pipeline) ==
    [path |-> "/api/repos/<pipeline>/builds", pipeline |-> pipeline]

\* The body of an answer, as response.json() gives it: a dictionary for a
\* JSON object, a list for a JSON array.
JsonObject(value) == [type |-> "object", value |-> value]
JsonArray(value) == [type |-> "array", value |-> value]

Response(code, text, json) ==
    [kind |-> "response", status_code |-> code, text |-> text, json |-> json]

\* What the server answers to a request that reaches it with a good token:
\* the repositories, one build, or the history newest first; 404 for what
\* does not exist (tests/unit/adapters/test_drone.py:31,76-80,96-99,139-142).
ServerAnswer(url) ==
    IF url = UserReposUrl
    THEN Response(200, "OK", JsonArray(<<>>))
    ELSE IF url.pipeline # Pipeline
    THEN Response(404, "", JsonObject(<<>>))
    ELSE IF url = BuildsUrl(Pipeline)
    THEN Response(200, "", JsonArray(build_history))
    ELSE IF url.number \in 1..Len(builds)
    THEN Response(200, "", JsonObject(builds[url.number]))
    ELSE Response(404, "", JsonObject(<<>>))

\* One request of a call: it raises a RequestException, is refused with a
\* 401 (tests/unit/adapters/test_drone.py:45), or is answered.
ScriptSteps == {"exception", "refused", "answered"}

AttemptOutcome(step, url) ==
    IF step = "exception" THEN RequestException
    ELSE IF step = "refused" THEN Response(401, "", JsonObject(<<>>))
    ELSE ServerAnswer(url)

\* The requests of one call: some failures, of one kind or of the two kinds
\* in turn, after which every request is answered.
Script(failures, first, second) ==
    [i \in 1..max_retries |->
       IF i > failures THEN "answered"
       ELSE IF i % 2 = 1 THEN first ELSE second]

Scripts ==
    { Script(failures, first, second) :
        failures \in 0..max_retries,
        first \in {"exception", "refused"},
        second \in {"exception", "refused"} }

\* Drone.get (drone.py:145-169) as a function of what its requests do: the
\* loop of GetAttempt run to its end. "state" is the locals retry and
\* response together with the requests issued so far.
RECURSIVE GetLoop(_, _, _)
GetLoop(url, script, state) ==
    IF state.retry < max_retries
    THEN LET outcome == AttemptOutcome(script[Len(state.attempts) + 1], url)
             issued == Append(state.attempts, outcome)
         IN IF outcome.kind = "response"
            THEN IF IsSuccess(outcome)
                 THEN [result |-> outcome, attempts |-> issued]
                 ELSE GetLoop(url, script,
                              [retry |-> state.retry + 1,
                               response |-> outcome, attempts |-> issued])
            ELSE GetLoop(url, script,
                         [retry |-> state.retry + 1,
                          response |-> state.response, attempts |-> issued])
    ELSE [result |-> APIError(state.response, url),
          attempts |-> state.attempts]

Drone_get(url, script) ==
    GetLoop(url, script,
            [retry |-> 0, response |-> Unbound, attempts |-> <<>>])

\* An exception that is not a DroneAPIError goes through every except
\* clause of the adapter.
UnboundLocalError == [kind |-> "UnboundLocalError"]
TypeError == [kind |-> "TypeError"]
DroneConfigurationError == [kind |-> "DroneConfigurationError"]

\* BuildInfo (drone.py:36-53): the fields without a default and the others.
RequiredFields ==
    {"id", "status", "number", "trigger", "event", "message", "source",
     "after", "target", "started", "finished"}
OptionalFields ==
    {"deploy_to", "parent", "before", "author_login", "author_name",
     "sender", "stages"}

BuildInfo(native_args) == [class |-> "BuildInfo", attrs |-> native_args]

\* BuildInfo.from_kwargs (drone.py:55-70): the keys that are fields are
\* kept, and the constructor raises TypeError when a field without a
\* default is not among them.
from_kwargs(kwargs) ==
    LET cls_fields == RequiredFields \cup OptionalFields
        native_args == [key \in DOMAIN kwargs \cap cls_fields |-> kwargs[key]]
    IN IF RequiredFields \subseteq DOMAIN native_args
       THEN BuildInfo(native_args)
       ELSE TypeError

\* json()[0] (drone.py:119,182): element 0 of a list, IndexError on an empty
\* one; on a dictionary 0 is looked up as a key, which a build does not have.
Index0(json) ==
    IF json.type = "array"
    THEN IF json.value = <<>> THEN IndexError ELSE json.value[1]
    ELSE KeyError

\* Each method below gives its outcome (the value returned or the exception
\* raised), the requests it issued and what it logged.
Outcome(result, got, logs) ==
    [result |-> result, attempts |-> got.attempts, logs |-> logs]

\* Drone.check_configuration (drone.py:93-104).
Drone_check_configuration(script) ==
    LET got == Drone_get(UserReposUrl, script)
    IN IF got.result.kind = "DroneAPIError"
       THEN Outcome(DroneConfigurationError, got,
                    <<[level |-> "error", msg |-> "Drone: KO"]>>)
       ELSE IF got.result.kind # "response"
       THEN Outcome(got.result, got, <<>>)
       ELSE Outcome(None, got, <<[level |-> "info", msg |-> "Drone: OK"]>>)

\* Drone.build_info (drone.py:116-126).
Drone_build_info(pipeline, n, script) ==
    LET got == Drone_get(BuildUrl(pipeline, n), script)
    IN IF got.result.kind = "DroneAPIError"
       THEN Outcome(DroneBuildError(pipeline, n), got, <<>>)
       ELSE IF got.result.kind # "response"
       THEN Outcome(got.result, got, <<>>)
       ELSE LET build_data == Index0(got.result.json)
            IN Outcome(IF IsError(build_data) THEN build_data
                       ELSE from_kwargs(build_data), got, <<>>)

\* Drone.last_build_info (drone.py:180-183).
Drone_last_build_info(pipeline, script) ==
    LET got == Drone_get(BuildsUrl(pipeline), script)
    IN IF got.result.kind # "response"
       THEN Outcome(got.result, got, <<>>)
       ELSE LET build_data == Index0(got.result.json)
            IN Outcome(IF IsError(build_data) THEN build_data
                       ELSE from_kwargs(build_data), got, <<>>)

\* Drone.last_success_build_info (drone.py:198-211): the build the scan
\* stops at is made a BuildInfo.
Drone_last_success_build_info(pipeline, branch, script) ==
    LET got == Drone_get(BuildsUrl(pipeline), script)
    IN IF got.result.kind # "response"
       THEN Outcome(got.result, got, <<>>)
       ELSE LET build_data ==
                    last_success_build_info(got.result.json.value, branch)
            IN Outcome(IF IsError(build_data) THEN build_data
                       ELSE from_kwargs(build_data), got, <<>>)

DroneIdle == droneOp = None /\ droneResult = None

\* What is kept of a request: whether it was answered and with which code.
Seen(attempt) ==
    IF attempt.kind = "response"
    THEN [kind |-> "response", status_code |-> attempt.status_code]
    ELSE attempt

\* A method of the adapter is called and runs to its end.
DroneCall(op, pipeline, n, branch, outcome) ==
    /\ droneOp = None
    /\ droneOp' = [op |-> op, pipeline |-> pipeline, number |-> n,
                   branch |-> branch,
                   attempts |-> [i \in 1..Len(outcome.attempts) |->
                                   Seen(outcome.attempts[i])]]
    /\ droneResult' = outcome.result
    /\ log' = log \o outcome.logs
    /\ UNCHANGED <<apiCalls, sleeps, builds>>

DroneCheckConfiguration(script) ==
    DroneCall("check_configuration", "", NoNumber, "",
              Drone_check_configuration(script))

DroneBuildInfo(n, script) ==
    DroneCall("build_info", Pipeline, n, "",
              Drone_build_info(Pipeline, n, script))

DroneLastBuildInfo(script) ==
    DroneCall("last_build_info", Pipeline, NoNumber, "",
              Drone_last_build_info(Pipeline, script))

DroneLastSuccessBuildInfo(branch, script) ==
    DroneCall("last_success_build_info", Pipeline, NoNumber, branch,
              Drone_last_success_build_info(Pipeline, branch, script))

\* ------------------------------------------------------------------------
\* The configuration (config.py, services.py:66-101)
\* ------------------------------------------------------------------------

\* active_project: null in the configuration file.
PyNone == "None"

ProjectIds == {"test_project_1", "test_project_2"}
GroupNames == {"production_autoscaler", "staging_autoscaler"}

\* The value under aws.autoscaling_groups.<environment>: a name, or a value
\* that is not a string.
Str(value) == [type |-> "str", value |-> value]
NotStr == [type |-> "int", value |-> "1"]

\* The autoscaling groups a project may declare: per environment nothing,
\* the name of the environment's group, or a value that is not a string.
GroupChoices(env) ==
    {{}, {[environment |-> env, name |-> Str(env \o "_autoscaler")]},
     {[environment |-> env, name |-> NotStr]}}

\* A project is a dictionary with an optional pipeline; "groups" holds what
\* there is under aws.autoscaling_groups.
Project(id, groups) ==
    [id |-> id, pipeline |-> Pipeline, groups |-> groups]

ProjectsChoices ==
    {{}} \cup
    { {Project("test_project_1", production \cup staging)} :
        production \in GroupChoices("production"),
        staging \in GroupChoices("staging") } \cup
    { {Project("test_project_1", production \cup staging),
       [id |-> "test_project_2", groups |-> {}]} :
        production \in GroupChoices("production"),
        staging \in GroupChoices("staging") }

ActiveChoices == ProjectIds \cup {PyNone, "missing_project"}

ConfigPath == "~/.local/share/drode/config.yaml"

\* The configurations a command may load: active_project and projects are
\* keys that may be missing.
Configs ==
    {[config_path |-> ConfigPath]} \cup
    { [config_path |-> ConfigPath, active_project |-> a] :
        a \in ActiveChoices } \cup
    { [config_path |-> ConfigPath, projects |-> p] : p \in ProjectsChoices }
    \cup
    { [config_path |-> ConfigPath, active_project |-> a, projects |-> p] :
        a \in ActiveChoices, p \in ProjectsChoices }

ConfigError(message) == [kind |-> "ConfigError", message |-> message]
Value(value) == [kind |-> "value", value |-> value]

ProjectKeys(conf) == { p.id : p \in conf.projects }
ProjectOf(conf, id) == CHOOSE p \in conf.projects : p.id = id

\* Mutant of get_active_project: with no active project the first of the
\* configured projects is returned, however many there are.
get_active_project_first(conf) ==
    IF Has(conf, "active_project") /\ Has(conf, "projects")
       /\ conf.active_project \in ProjectKeys(conf)
    THEN Value(conf.active_project)
    ELSE IF Has(conf, "projects") /\ conf.projects # {}
    THEN Value(CHOOSE id \in ProjectKeys(conf) : TRUE)
    ELSE ConfigError("There are no projects configured.")
\* services.get_active_project (services.py:85-101).
get_active_project(conf) ==
    LET only_project ==
            IF ~Has(conf, "projects")
            THEN ConfigError("There are no projects configured.")
            ELSE IF Cardinality(ProjectKeys(conf)) = 1
            THEN Value(CHOOSE id \in ProjectKeys(conf) : TRUE)
            ELSE ConfigError("There are more than one project configured")
    IN IF ~Has(conf, "active_project") THEN only_project
       ELSE IF conf.active_project = PyNone THEN only_project
       ELSE IF ~Has(conf, "projects") THEN only_project
       ELSE IF conf.active_project \notin ProjectKeys(conf)
       THEN ConfigError("The project does not exist")
       ELSE Value(conf.active_project)

\* Config.get (config.py:70-85) of
\* projects.<project>.aws.autoscaling_groups.<environment>.
GetAutoscalerName(conf, id, env) ==
    LET declared == { g \in ProjectOf(conf, id).groups :
                        g.environment = env }
    IN IF declared = {}
       THEN ConfigError("Failed to fetch the configuration")
       ELSE (CHOOSE g \in declared : TRUE).name

\* ------------------------------------------------------------------------
\* The configuration file (config.py:117-137) and
\* services.set_active_project (services.py:66-113)
\* ------------------------------------------------------------------------

\* The nodes of a YAML document: a scalar is a text, plain or quoted, and a
\* mapping is a set of entries, each a key with a node.
Scalar(text, quoted) == [tag |-> "scalar", text |-> text, quoted |-> quoted]
Mapping(entries) == [tag |-> "map", entries |-> entries]
Entry(key, node) == [key |-> key, node |-> node]
HasEntry(node, key) == \E entry \in node.entries : entry.key = key
EntryOf(node, key) ==
    (CHOOSE entry \in node.entries : entry.key = key).node

\* The plain scalars YAML reads as null and as integers.
NullTexts == {"", "~", "null", "Null", "NULL"}
IntTexts == {"0", "1", "2"}

\* The type YAML().load gives a scalar: a quoted scalar is a string, a
\* plain one is resolved from its text.
Resolve(node) ==
    IF node.quoted THEN "str"
    ELSE IF node.text \in NullTexts THEN "null"
    ELSE IF node.text \in IntTexts THEN "int"
    ELSE "str"

\* yaml.dump of a string, of None and of an integer: a string that a plain
\* scalar would not give back is quoted, None is the empty scalar.
RepresentStr(text) ==
    Scalar(text, Resolve(Scalar(text, FALSE)) # "str")
RepresentNone == Scalar("", FALSE)
RepresentTyped(value) ==
    IF value.type = "str" THEN RepresentStr(value.value)
    ELSE Scalar(value.value, FALSE)

\* YAML().load of a scalar under active_project and under
\* aws.autoscaling_groups.<environment>.
ConstructActive(node) ==
    IF Resolve(node) = "null" THEN PyNone ELSE node.text
ConstructTyped(node) ==
    IF Resolve(node) = "str" THEN Str(node.text)
    ELSE [type |-> "int", value |-> node.text]

\* yaml.dump of one project and of the dictionary of projects.
RepresentProject(project) ==
    Mapping(
        (IF Has(project, "pipeline")
         THEN {Entry("pipeline", RepresentStr(project.pipeline))} ELSE {})
        \cup
        (IF project.groups # {}
         THEN {Entry("aws", Mapping({Entry("autoscaling_groups", Mapping(
                 { Entry(g.environment, RepresentTyped(g.name)) :
                     g \in project.groups }))}))}
         ELSE {}))
RepresentProjects(projects) ==
    Mapping({ Entry(project.id, RepresentProject(project)) :
                project \in projects })

\* YAML().load of one project and of the dictionary of projects.
ConstructGroups(node) ==
    IF ~HasEntry(node, "aws") THEN {}
    ELSE { [environment |-> entry.key, name |-> ConstructTyped(entry.node)] :
             entry \in EntryOf(EntryOf(node, "aws"),
                               "autoscaling_groups").entries }
ConstructProject(id, node) ==
    IF HasEntry(node, "pipeline")
    THEN [id |-> id, pipeline |-> EntryOf(node, "pipeline").text,
          groups |-> ConstructGroups(node)]
    ELSE [id |-> id, groups |-> ConstructGroups(node)]
ConstructProjects(node) ==
    { ConstructProject(entry.key, entry.node) : entry \in node.entries }

\* Mutant of YamlDump: active_project is left out of the document.
YamlDump_stale(conf) ==
    Mapping(IF Has(conf, "projects")
            THEN {Entry("projects", RepresentProjects(conf.projects))}
            ELSE {})
\* Config.save (config.py:132-137): yaml.dump of self.data, which holds the
\* keys of the configuration and not config_path.
YamlDump(conf) ==
    Mapping(
        (IF Has(conf, "active_project")
         THEN {Entry("active_project",
                     IF conf.active_project = PyNone THEN RepresentNone
                     ELSE RepresentStr(conf.active_project))}
         ELSE {})
        \cup
        (IF Has(conf, "projects")
         THEN {Entry("projects", RepresentProjects(conf.projects))}
         ELSE {}))

\* Config(config_path) (config.py:40-47,117-123): self.data is what
\* YAML().load reads from the document at config_path.
YamlLoad(path, document) ==
    LET active == ConstructActive(EntryOf(document, "active_project"))
        projects == ConstructProjects(EntryOf(document, "projects"))
    IN IF HasEntry(document, "active_project")
       THEN IF HasEntry(document, "projects")
            THEN [config_path |-> path, active_project |-> active,
                  projects |-> projects]
            ELSE [config_path |-> path, active_project |-> active]
       ELSE IF HasEntry(document, "projects")
            THEN [config_path |-> path, projects |-> projects]
            ELSE [config_path |-> path]

\* services._check_project (services.py:66-73): config["projects"] raises
\* KeyError when there is no such key.
check_project(conf, project_id) ==
    IF ~Has(conf, "projects") THEN KeyError
    ELSE IF project_id \notin ProjectKeys(conf)
    THEN ConfigError("The project does not exist")
    ELSE None

\* services.set_active_project (services.py:104-113): the outcome, the
\* configuration in memory, whether it was saved, and what was logged.
set_active_project(conf, project_id) ==
    IF check_project(conf, project_id) # None
    THEN [result |-> check_project(conf, project_id), conf |-> conf,
          saved |-> FALSE, logs |-> <<>>]
    ELSE [result |-> None,
          conf |-> SetKey(conf, "active_project", project_id),
          saved |-> TRUE,
          logs |-> <<[level |-> "info", msg |-> "now active",
                      project |-> project_id]>>]

\* How many calls on the configuration one run makes at most.
MaxOps == 3

\* No configuration file was read and no call was made on it.
StoreIdle == configFile = None /\ configLog = <<>>

StoreReady ==
    /\ configFile # None /\ Len(configLog) < MaxOps
    /\ cliCmd = None /\ statusResult = None /\ awsCalls = <<>>

\* The program starts: the file at config_path holds the YAML of one of the
\* configurations, and Config() loads it.
ConfigStart(written) ==
    /\ configFile = None /\ cliCmd = None /\ statusResult = None
    /\ awsCalls = <<>>
    /\ configFile' = YamlDump(written)
    /\ config' = YamlLoad(ConfigPath, YamlDump(written))
    /\ UNCHANGED <<configLog, fleet, awsCalls, statusResult, cliVars, log>>

\* services.get_active_project is called on the configuration in memory.
GetActiveProject ==
    /\ StoreReady
    /\ configLog' = Append(configLog,
           [op |-> "get_active_project", conf |-> config,
            result |-> get_active_project(config)])
    /\ UNCHANGED <<configFile, fleetVars, cliVars, log>>

\* services.set_active_project is called on the configuration in memory.
SetActiveProject(project_id) ==
    /\ StoreReady
    /\ LET set == set_active_project(config, project_id)
       IN /\ config' = set.conf
          /\ configFile' = (IF set.saved THEN YamlDump(set.conf)
                            ELSE configFile)
          /\ log' = log \o set.logs
          /\ configLog' = Append(configLog,
                 [op |-> "set_active_project", project_id |-> project_id,
                  conf |-> config, result |-> set.result])
    /\ UNCHANGED <<fleet, awsCalls, statusResult, cliVars>>

\* A new Config(config.config_path) is built from the file, as the next run
\* of the program does.
ConfigReload ==
    /\ StoreReady
    /\ config' = YamlLoad(config.config_path, configFile)
    /\ configLog' = Append(configLog, [op |-> "load", conf |-> config])
    /\ UNCHANGED <<configFile, fleet, awsCalls, statusResult, cliVars, log>>

\* ------------------------------------------------------------------------
\* The AWS adapter (aws.py:27-123) and services.project_status
\* ------------------------------------------------------------------------

\* What boto3 does on describe_regions (aws.py:40-42).
AwsCheckOutcomes == {"ok", "NoRegionError", "ClientError"}

AWSConfigurationError(error) ==
    [kind |-> "AWSConfigurationError", error |-> error]
AWSStateError(name) == [kind |-> "AWSStateError", name |-> name]

\* Mutant of AWS_check_configuration: a failure is a warning and no more.
AWS_check_configuration_warns(outcome) ==
    IF outcome \in {"NoRegionError", "ClientError"}
    THEN [result |-> None,
          logs |-> <<[level |-> "warning", msg |-> "AWS: KO"]>>]
    ELSE [result |-> None, logs |-> <<[level |-> "info", msg |-> "AWS: OK"]>>]
\* AWS.check_configuration (aws.py:39-45).
AWS_check_configuration(outcome) ==
    IF outcome \in {"NoRegionError", "ClientError"}
    THEN [result |-> AWSConfigurationError(outcome),
          logs |-> <<[level |-> "error", msg |-> "AWS: KO"]>>]
    ELSE [result |-> None, logs |-> <<[level |-> "info", msg |-> "AWS: OK"]>>]

\* The information of a group that exists, and the dictionary {}.
AutoscalerInfo(name) ==
    [empty |-> FALSE, template |-> name \o "-launch-conf", instances |-> <<>>]
EmptyInfo == [empty |-> TRUE]

\* AWS.get_autoscaling_group (aws.py:79-123) where the groups of "groups"
\* exist.
AWS_get_autoscaling_group(groups, name) ==
    IF name \in groups THEN AutoscalerInfo(name) ELSE AWSStateError(name)

\* ------------------------------------------------------------------------
\* AWS.get_autoscaling_group over boto3 (aws.py:47-123)
\* ------------------------------------------------------------------------

InstanceIds == {"i-1", "i-2"}
HealthStatuses == {"Healthy", "Unhealthy"}
LifecycleStates == {"InService", "Terminating"}

\* The names of launch configurations and launch templates: two short ones
\* and one of 47 characters, with its first 35 characters.
LongName == "launch-configuration-of-more-than-35-characters"
LongName35 == "launch-configuration-of-more-than-3"
TemplateNames == {"launch-config-name", "old-launch-config-name", LongName}

\* name[:35] (aws.py:92,103,106).
Truncate35(name) == IF name = LongName THEN LongName35 ELSE name

\* What AWS tells of the launch configuration or launch template of a
\* group or of an instance: one of the two keys, or neither.
Launches ==
    { [LaunchConfigurationName |-> name] : name \in TemplateNames } \cup
    { [LaunchTemplate |-> [LaunchTemplateName |-> name, Version |-> "1"]] :
        name \in {"old-launch-config-name", LongName} } \cup
    { [MixedInstancesPolicy |-> "policy"] }

\* The template of a group (aws.py:84-94) and of an instance
\* (aws.py:102-108): the launch configuration, else the launch template
\* and its version, else KeyError.
TemplateText(launch) ==
    Truncate35(launch.LaunchTemplate.LaunchTemplateName)
        \o ":" \o launch.LaunchTemplate.Version
GroupTemplate(launch) ==
    IF Has(launch, "LaunchConfigurationName")
    THEN Value(launch.LaunchConfigurationName)
    ELSE IF Has(launch, "LaunchTemplate") THEN Value(TemplateText(launch))
    ELSE KeyError
InstanceTemplate(launch) ==
    IF Has(launch, "LaunchConfigurationName")
    THEN Value(Truncate35(launch.LaunchConfigurationName))
    ELSE IF Has(launch, "LaunchTemplate") THEN Value(TemplateText(launch))
    ELSE KeyError

\* An element of Instances of a group.
InstanceData(id, health, lifecycle, launch) ==
    [InstanceId |-> id, HealthStatus |-> health, LifecycleState |-> lifecycle,
     launch |-> launch]
InstanceChoices(id) ==
    { InstanceData(id, health, lifecycle, launch) :
        health \in HealthStatuses, lifecycle \in LifecycleStates,
        launch \in { l \in Launches :
                       ~Has(l, "LaunchTemplate")
                       \/ l.LaunchTemplate.LaunchTemplateName = LongName } }
InstanceLists ==
    {<<>>} \cup { <<i>> : i \in InstanceChoices("i-1") } \cup
    { <<i, j>> : i \in InstanceChoices("i-1"),
                 j \in { k \in InstanceChoices("i-2") :
                           k.HealthStatus = "Healthy" } } \cup
    { <<j, i>> : i \in {InstanceData("i-1", "Healthy", "InService",
                            [LaunchConfigurationName |-> LongName])},
                 j \in {InstanceData("i-2", "Unhealthy", "Terminating",
                            [LaunchConfigurationName |->
                                 "old-launch-config-name"])} }

\* An element of AutoScalingGroups.
Group(name, launch, instances) ==
    [AutoScalingGroupName |-> name, launch |-> launch,
     Instances |-> instances]

\* A second group in the answer of describe_auto_scaling_groups.
OtherGroup ==
    Group("staging_autoscaler",
          [LaunchConfigurationName |-> "old-launch-config-name"],
          <<InstanceData("i-2", "Unhealthy", "Terminating",
                [LaunchConfigurationName |-> "old-launch-config-name"])>>)

\* The answers of describe_auto_scaling_groups to one name: no group, one
\* group, or two groups.
Descriptions(name) ==
    {<<>>} \cup
    { <<Group(name, launch, instances)>> :
        launch \in Launches, instances \in InstanceLists } \cup
    { <<Group(name, launch, instances), OtherGroup>> :
        launch \in {[LaunchConfigurationName |-> "launch-config-name"]},
        instances \in { l \in InstanceLists : Len(l) <= 1 } } \cup
    { <<OtherGroup, Group(name, launch, <<>>)>> :
        launch \in {[LaunchConfigurationName |-> "launch-config-name"]} }

\* Reservations[0].Instances[0] of describe_instances for one instance
\* (aws.py:99-101).
Ec2Data(id) ==
    IF id = "i-1"
    THEN [PrivateIpAddress |-> "192.168.1.13",
          LaunchTime |-> [date |-> "2020-06-08", time |-> "11:29",
                          second |-> "27"]]
    ELSE [PrivateIpAddress |-> "192.168.1.14",
          LaunchTime |-> [date |-> "2020-06-09", time |-> "07:05",
                          second |-> "00"]]

\* LaunchTime.strftime("%Y-%m-%dT%H:%M") (aws.py:118).
Strftime(launch_time) == launch_time.date \o "T" \o launch_time.time

\* Mutant of Status: the two parts the other way round.
Status_swapped(instance_data) ==
    instance_data.LifecycleState \o "/" \o instance_data.HealthStatus
\* aws.py:113-116
Status(instance_data) ==
    instance_data.HealthStatus \o "/" \o instance_data.LifecycleState

\* The loop over the instances of the group (aws.py:98-121): the entries
\* appended and the describe_instances calls made, or the KeyError of an
\* instance with neither launch configuration nor launch template.
RECURSIVE InstanceLoop(_, _, _)
InstanceLoop(instances, entries, calls) ==
    IF instances = <<>> THEN [result |-> Value(entries), calls |-> calls]
    ELSE LET instance_data == Head(instances)
             ec2_data == Ec2Data(instance_data.InstanceId)
             instance_template == InstanceTemplate(instance_data.launch)
             called == Append(calls, [op |-> "describe_instances",
                                      name |-> instance_data.InstanceId])
         IN IF instance_template = KeyError
            THEN [result |-> KeyError, calls |-> called]
            ELSE InstanceLoop(Tail(instances),
                     Append(entries,
                         [Instance |-> instance_data.InstanceId,
                          IP |-> ec2_data.PrivateIpAddress,
                          Status |-> Status(instance_data),
                          Created |-> Strftime(ec2_data.LaunchTime),
                          Template |-> instance_template.value]),
                     called)

\* Mutant of NoGroup: anything but one group counts as no group.
NoGroup_notone(groups) == Len(groups) # 1
\* ["AutoScalingGroups"][0] raises IndexError (aws.py:80-83,96).
NoGroup(groups) == groups = <<>>

\* AWS.get_autoscaling_group (aws.py:72-123) where
\* describe_auto_scaling_groups answers with "groups": what is returned or
\* raised, and the calls made to boto3.
get_autoscaling_group(autoscaling_name, groups) ==
    LET describe == <<[op |-> "describe_auto_scaling_groups",
                       name |-> autoscaling_name]>>
    IN IF NoGroup(groups)
       THEN [result |-> AWSStateError(autoscaling_name), calls |-> describe]
       ELSE LET autoscaling_group == groups[1]
                template == GroupTemplate(autoscaling_group.launch)
                loop == InstanceLoop(autoscaling_group.Instances, <<>>,
                                     describe)
            IN IF template = KeyError
               THEN [result |-> KeyError, calls |-> describe]
               ELSE IF loop.result = KeyError THEN loop
               ELSE [result |-> Value([template |-> template.value,
                                       instances |-> loop.result.value]),
                     calls |-> loop.calls]

GroupIdle == described = <<>> /\ groupResult = None

\* AWS.get_autoscaling_group is called with a name, and
\* describe_auto_scaling_groups answers.
GetAutoscalingGroup(autoscaling_name, groups) ==
    /\ groupResult = None /\ awsCalls = <<>>
    /\ statusResult = None /\ cliCmd = None
    /\ described' = groups
    /\ LET got == get_autoscaling_group(autoscaling_name, groups)
       IN /\ groupResult' = got.result
          /\ awsCalls' = got.calls
    /\ UNCHANGED <<config, fleet, statusResult, cliVars, log>>

\* Mutant of StatusEnvironments: the environments the other way round.
StatusEnvironments_reversed == <<"Staging", "Production">>
\* services.py:185
StatusEnvironments == <<"Production", "Staging">>

\* str.lower() of the two environments (services.py:189).
Lower(env) ==
    IF env = "Production" THEN "production" ELSE "staging"

\* The loop of services.project_status (services.py:185-197) over the
\* environments left: the entries in the order of insertion and the calls
\* to the AWS adapter, or the exception that leaves the loop. Only
\* ConfigError is caught inside the loop.
RECURSIVE StatusLoop(_, _, _, _, _, _)
StatusLoop(conf, groups, id, environments, project, calls) ==
    IF environments = <<>>
    THEN [result |-> Value(project), calls |-> calls]
    ELSE LET env == Head(environments)
             autoscaler_name == GetAutoscalerName(conf, id, Lower(env))
         IN IF IsError(autoscaler_name) \/ autoscaler_name.type # "str"
            THEN StatusLoop(conf, groups, id, Tail(environments),
                     Append(project, [environment |-> env,
                                      autoscaler_info |-> EmptyInfo]),
                     calls)
            ELSE LET autoscaler_info ==
                         AWS_get_autoscaling_group(groups,
                                                   autoscaler_name.value)
                     called == Append(calls,
                         [op |-> "get_autoscaling_group",
                          name |-> autoscaler_name.value,
                          outcome |-> autoscaler_info])
                 IN IF IsError(autoscaler_info)
                    THEN [result |-> autoscaler_info, calls |-> called]
                    ELSE StatusLoop(conf, groups, id, Tail(environments),
                             Append(project,
                                    [environment |-> env,
                                     autoscaler_info |-> autoscaler_info]),
                             called)

\* services.project_status (services.py:175-199).
project_status(conf, groups) ==
    LET active_project == get_active_project(conf)
    IN IF active_project.kind = "ConfigError"
       THEN [result |-> active_project, calls |-> <<>>]
       ELSE StatusLoop(conf, groups, active_project.value,
                       StatusEnvironments, <<>>, <<>>)

\* No command has run and no service of the fleet was called.
FleetIdle ==
    /\ config = [config_path |-> ConfigPath] /\ fleet = {}
    /\ awsCalls = <<>> /\ statusResult = None
    /\ cliCmd = None /\ cliExit = NoNumber /\ cliRaised = None
    /\ cliOut = <<>>

\* services.project_status is called with a configuration, on a fleet.
ProjectStatus(loaded, groups) ==
    /\ statusResult = None /\ cliCmd = None /\ awsCalls = <<>>
    /\ config' = loaded
    /\ fleet' = groups
    /\ LET status == project_status(loaded, groups)
       IN /\ statusResult' = status.result
          /\ awsCalls' = status.calls
    /\ UNCHANGED <<cliVars, log>>

\* AWS.check_configuration is called on its own.
AwsCheckConfiguration(outcome) ==
    /\ statusResult = None /\ cliCmd = None /\ awsCalls = <<>>
    /\ LET check == AWS_check_configuration(outcome)
       IN /\ awsCalls' = <<[op |-> "check_configuration", name |-> outcome,
                            outcome |-> check.result]>>
          /\ log' = log \o check.logs
    /\ UNCHANGED <<config, fleet, statusResult, cliVars>>

\* The verify command (cli.py:122-132): the version is logged, the Drone
\* check runs, then the AWS check; the two configuration errors are logged
\* and end the command with status 1, any other exception leaves it.
Verify(script, outcome) ==
    /\ statusResult = None /\ cliCmd = None /\ awsCalls = <<>>
    /\ cliCmd' = [name |-> "verify"]
    /\ UNCHANGED <<config, fleet, statusResult, cliOut>>
    /\ LET version == <<[level |-> "info", msg |-> "Drode: version"]>>
           drone == Drone_check_configuration(script)
           aws == AWS_check_configuration(outcome)
           failed(error) == <<[level |-> "error", msg |-> error.kind]>>
       IN IF drone.result # None
          THEN /\ awsCalls' = awsCalls
               /\ IF drone.result = DroneConfigurationError
                  THEN /\ log' = log \o version \o drone.logs
                                     \o failed(drone.result)
                       /\ cliExit' = 1
                       /\ cliRaised' = None
                  ELSE /\ log' = log \o version \o drone.logs
                       /\ cliExit' = 1
                       /\ cliRaised' = drone.result
          ELSE /\ awsCalls' = <<[op |-> "check_configuration",
                                 name |-> outcome, outcome |-> aws.result]>>
               /\ IF aws.result # None
                  THEN /\ log' = log \o version \o drone.logs \o aws.logs
                                     \o failed(aws.result)
                       /\ cliExit' = 1
                       /\ cliRaised' = None
                  ELSE /\ log' = log \o version \o drone.logs \o aws.logs
                       /\ cliExit' = 0
                       /\ cliRaised' = None

\* ------------------------------------------------------------------------
\* The wait and promote commands (cli.py:78-119)
\* ------------------------------------------------------------------------

\* The configurations the two commands are run with: an active project
\* with a pipeline, one without pipeline, no active project among two, and
\* no project at all.
CliProjects ==
    {Project("test_project_1", {}), [id |-> "test_project_2", groups |-> {}]}

CliConfigs ==
    { [config_path |-> ConfigPath, active_project |-> "test_project_1",
       projects |-> CliProjects],
      [config_path |-> ConfigPath, active_project |-> "test_project_2",
       projects |-> CliProjects],
      [config_path |-> ConfigPath, projects |-> CliProjects],
      [config_path |-> ConfigPath] }

\* What the operator types at the prompt of the promote command: a
\* confirmation or a refusal.
CliAnswers == {"y", "no"}

\* The except clause of the two commands (cli.py:87,117).
Caught(error) == error.kind \in {"DroneBuildError", "ConfigError"}

\* An exception reaches the except clause of a command: one that is caught
\* is logged and the command exits with 1 (cli.py:87-89,117-119); any other
\* leaves the command, and the interpreter ends with status 1.
CliExcept(error) ==
    /\ cliExit' = 1
    /\ cliOut' = cliOut
    /\ IF Caught(error)
       THEN /\ log' = Append(log, [level |-> "error", msg |-> error.kind])
            /\ cliRaised' = None
       ELSE /\ log' = log
            /\ cliRaised' = error

\* The head of the two commands (cli.py:84-85,112-113): the active project
\* and its pipeline, or the exception of the lookup.
ActivePipeline(conf) ==
    LET project_id == get_active_project(conf)
    IN IF project_id.kind = "ConfigError" THEN project_id
       ELSE IF ~Has(ProjectOf(conf, project_id.value), "pipeline")
       THEN KeyError
       ELSE Value(ProjectOf(conf, project_id.value).pipeline)

CliIdle ==
    /\ cliCmd = None /\ waitPc = "idle" /\ promPc = "idle"
    /\ statusResult = None /\ awsCalls = <<>>

\* drode wait [build_number] (cli.py:78-86): up to the call of
\* services.wait.
CliWait(loaded, arg, outcome) ==
    /\ CliIdle
    /\ cliCmd' = [name |-> "wait", build_number |-> arg]
    /\ config' = loaded
    /\ UNCHANGED <<fleet, awsCalls, statusResult>>
    /\ LET pipeline == ActivePipeline(loaded)
       IN IF pipeline.kind # "value"
          THEN /\ CliExcept(pipeline)
               /\ UNCHANGED <<waitVars, apiCalls, sleeps>>
          ELSE /\ WaitCall(pipeline.value, arg, outcome)
               /\ UNCHANGED <<cliExit, cliRaised, cliOut>>

\* drode promote [-w] [environment] [build_number] (cli.py:93-114): up to
\* the prompt of services.promote.
CliPromote(loaded, env, wait, arg, outcome) ==
    /\ CliIdle
    /\ cliCmd' = [name |-> "promote", environment |-> env, wait |-> wait,
                  build_number |-> arg]
    /\ config' = loaded
    /\ UNCHANGED <<fleet, awsCalls, statusResult>>
    /\ LET pipeline == ActivePipeline(loaded)
       IN IF pipeline.kind # "value"
          THEN /\ CliExcept(pipeline)
               /\ UNCHANGED <<promVars, apiCalls, sleeps>>
          ELSE /\ PromoteCall(env, arg, outcome)
               /\ UNCHANGED <<cliExit, cliRaised, cliOut>>

\* services.promote is over (cli.py:114-119): its exception reaches the
\* except clause; with the wait flag services.wait is called with the
\* project id and what promote returned; else the command ends.
CliPromoted(outcome) ==
    /\ cliCmd # None /\ cliCmd.name = "promote"
    /\ cliExit = NoNumber
    /\ promPc \in {"returned", "raised"}
    /\ waitPc = "idle"
    /\ UNCHANGED <<cliCmd, config, fleet, awsCalls, statusResult>>
    /\ IF promPc = "raised"
       THEN /\ CliExcept(promResult)
            /\ UNCHANGED <<waitVars, apiCalls, sleeps>>
       ELSE IF cliCmd.wait
       THEN /\ WaitCall(get_active_project(config).value,
                        IF promResult = None THEN NoNumber
                        ELSE promResult.value, outcome)
            /\ UNCHANGED <<cliExit, cliRaised, cliOut>>
       ELSE /\ cliExit' = 0
            /\ UNCHANGED <<cliRaised, cliOut, waitVars, ioVars>>

\* services.wait is over (cli.py:86-90,115-119): its exception reaches the
\* except clause, else the bell is printed and the command ends.
CliWaited ==
    /\ cliCmd # None /\ cliCmd.name \in {"wait", "promote"}
    /\ cliExit = NoNumber
    /\ waitPc \in {"returned", "raised"}
    /\ UNCHANGED <<cliCmd, config, fleet, awsCalls, statusResult, waitVars,
                   apiCalls, sleeps>>
    /\ IF waitPc = "raised"
       THEN CliExcept(waitResult)
       ELSE /\ cliExit' = 0
            /\ cliOut' = Append(cliOut, "bell")
            /\ UNCHANGED <<cliRaised, log>>

\* ------------------------------------------------------------------------
\* The requests of the services: each adapter call of wait and of promote
\* as the HTTP requests Drone.get sends for it (drone.py:145-169)
\* ------------------------------------------------------------------------

WireIdle == outstanding = 0 /\ callPc = None

\* The call sites of the two services (services.py:37,46,151,153,168).
Sites == {"last_build_info", "build_info", "resolve", "promote"}

\* An adapter call was made and its first request sent.
Calling(site, env, arg, answer) ==
    [site |-> site, env |-> env, arg |-> arg, answer |-> answer,
     retry |-> 0, state |-> "sent"]

\* Mutant of Returned: the service goes on while a call is in progress.
Returned_async(call) == TRUE
\* The service runs on one thread and requests.get and requests.post block
\* (drone.py:149-157): the service is at a call site only when the call
\* before has returned or raised.
Returned(call) == call = None

\* The service is at the call site, with the arguments of the call.
AtSite(site, env, arg, answer) ==
    CASE site = "last_build_info" ->
           /\ waitPc = "idle" /\ promPc = "idle"
           /\ env = "" /\ arg = NoNumber /\ answer = ""
      [] site = "build_info" ->
           /\ waitPc = "poll" /\ Len(apiCalls) < MaxPolls
           /\ env = "" /\ arg = build_number /\ answer = ""
      [] site = "resolve" ->
           /\ promPc = "idle" /\ waitPc = "idle"
           /\ env \in Environments /\ answer = ""
      [] site = "promote" ->
           /\ promPc = "asking" /\ ask(answer)
           /\ env = environment /\ arg = promNumber

\* The adapter is called and Drone.get sends the first request.
WireSend(site, env, arg, answer) ==
    /\ Returned(callPc)
    /\ AtSite(site, env, arg, answer)
    /\ callPc' = Calling(site, env, arg, answer)
    /\ outstanding' = outstanding + 1
    /\ UNCHANGED <<ioVars, waitVars, promVars, serverVars>>

\* The request raises RequestException or is answered with a status other
\* than 200 (drone.py:159-164): retry is incremented.
WireFail ==
    /\ callPc # None /\ callPc.state = "sent"
    /\ callPc' = [callPc EXCEPT !.state = "failed", !.retry = @ + 1]
    /\ outstanding' = outstanding - 1
    /\ UNCHANGED <<ioVars, waitVars, promVars, serverVars>>

\* The loop of Drone.get goes round (drone.py:146): the next request.
WireResend ==
    /\ callPc # None /\ callPc.state = "failed"
    /\ callPc.retry < max_retries
    /\ callPc' = [callPc EXCEPT !.state = "sent"]
    /\ outstanding' = outstanding + 1
    /\ UNCHANGED <<ioVars, waitVars, promVars, serverVars>>

\* What the adapter raises when Drone.get gave up.
RaisedByGet(outcome) ==
    /\ Has(outcome, "kind")
    /\ outcome.kind \in {"DroneAPIError", "DroneBuildError"}

\* What the adapter call in progress may return or raise.
WireOutcomes(call) ==
    CASE call.site = "last_build_info" -> LastBuildInfoOutcomes(Pipeline)
      [] call.site = "build_info" -> BuildInfoOutcomes(Pipeline, call.arg)
      [] call.site = "resolve" ->
           IF call.arg = NoNumber THEN LastSuccessOutcomes(Pipeline)
           ELSE BuildInfoOutcomes(Pipeline, call.arg)
      [] call.site = "promote" -> PromoteOutcomes(Pipeline, call.arg)

\* The adapter call returns to the service, after an answer with status
\* 200 or after the last retry, and the service goes on to its next call
\* site.
WireReturn(outcome) ==
    /\ callPc # None
    /\ \/ /\ callPc.state = "sent"
          /\ outstanding' = outstanding - 1
       \/ /\ callPc.state = "failed"
          /\ callPc.retry = max_retries
          /\ RaisedByGet(outcome)
          /\ outstanding' = outstanding
    /\ callPc' = None
    /\ CASE callPc.site = "last_build_info" ->
              WaitCall(Pipeline, NoNumber, outcome)
                /\ UNCHANGED <<promVars, serverVars>>
         [] callPc.site = "build_info" ->
              WaitPoll(outcome) /\ UNCHANGED <<promVars, serverVars>>
         [] callPc.site = "resolve" ->
              PromoteCall(callPc.env, callPc.arg, outcome)
                /\ UNCHANGED <<waitVars, serverVars>>
         [] callPc.site = "promote" ->
              PromoteAnswer(callPc.answer, outcome) /\ UNCHANGED waitVars

\* wait is called with a build number: no request before the loop.
WireWaitNumber(arg) ==
    /\ Returned(callPc) /\ promPc = "idle" /\ arg # NoNumber
    /\ WaitCall(Pipeline, arg, None)
    /\ UNCHANGED <<promVars, serverVars, wireVars>>

\* The operator refuses the promotion: no request.
WireDecline(answer) ==
    /\ Returned(callPc) /\ ~ask(answer)
    /\ PromoteAnswer(answer, None)
    /\ UNCHANGED <<waitVars, wireVars>>

\* The server of a repository whose builds come from pushes and end in
\* success or in failure.
PushServer ==
    \/ \E target \in Targets : ServerCreate("push", target)
    \/ \E n \in 1..MaxBuilds : ServerStart(n)
    \/ \E n \in 1..MaxBuilds, status \in {"success", "failure"} :
         ServerFinish(n, status)

\* ------------------------------------------------------------------------
\* Specifications
\* ------------------------------------------------------------------------

RestIdle ==
    DroneIdle /\ FleetIdle /\ StoreIdle /\ WireIdle /\ GroupIdle

Idle ==
    /\ GetIdle /\ ServerEmpty /\ IoIdle /\ WaitIdle /\ PromoteIdle
    /\ RestIdle

InitGet == Idle

NextGet ==
    \/ \E url \in Urls, method \in Methods :
         GetCall(url, method)
           /\ UNCHANGED <<serverVars, ioVars, waitVars, promVars, restVars>>
    \/ \E outcome \in AttemptOutcomes :
         GetAttempt(outcome)
           /\ UNCHANGED <<serverVars, ioVars, waitVars, promVars, restVars>>

SpecGet == InitGet /\ [][NextGet]_vars

\* ------------------------------------------------------------------------
\* Claims about Drone.get
\* ------------------------------------------------------------------------

IsFailedResponse(a) == a.kind = "response" /\ a.status_code # 200
IsOkResponse(a) == a.kind = "response" /\ a.status_code = 200

\* C3: when the first N requests (N in 0..4) answer with a non-200 response
\* and request N+1 answers 200, get has returned exactly that response and
\* exactly N+1 requests were issued; and get returns nothing but the 200
\* response of its last request.
C3_RetryThenSuccess ==
    /\ \A n \in 0..4 :
          ( /\ Len(attempts) > n
            /\ \A i \in 1..n : IsFailedResponse(attempts[i])
            /\ IsOkResponse(attempts[n + 1]) )
          => /\ getPc = "returned"
             /\ getResult = attempts[n + 1]
             /\ Len(attempts) = n + 1
    /\ getPc = "returned"
          => /\ Len(attempts) >= 1
             /\ IsOkResponse(attempts[Len(attempts)])
             /\ getResult = attempts[Len(attempts)]

\* Four 401/404 responses, then a 200: returned at the fifth request.
C3_Witness ==
    /\ getPc = "returned"
    /\ Len(attempts) = 5
    /\ \A i \in 1..4 : IsFailedResponse(attempts[i])

\* C4: when five requests all answer with a non-200 response, get has raised
\* DroneAPIError with the status code of the fifth response and the url, and
\* exactly five requests were issued.
C4_ExhaustedRaisesAPIError ==
    ( /\ Len(attempts) >= 5
      /\ \A i \in 1..5 : IsFailedResponse(attempts[i]) )
    => /\ getPc = "raised"
       /\ Len(attempts) = 5
       /\ getResult = [kind |-> "DroneAPIError",
                       status_code |-> attempts[5].status_code,
                       url |-> getUrl]

\* Five failed responses whose last status code differs from the first.
C4_Witness ==
    /\ getPc = "raised"
    /\ Len(attempts) = 5
    /\ \A i \in 1..5 : IsFailedResponse(attempts[i])
    /\ attempts[5].status_code # attempts[1].status_code

\* C5: every sequence of five failed attempts, each a non-200 response or a
\* RequestException, ends with get raising DroneAPIError and nothing else.
C5_FailuresRaiseOnlyAPIError ==
    ( /\ Len(attempts) >= 5
      /\ \A i \in 1..5 :
            IsFailedResponse(attempts[i]) \/ attempts[i] = RequestException )
    => /\ getPc = "raised"
       /\ getResult.kind = "DroneAPIError"

\* The builds a caller may name: the existing ones and one that is missing.
BuildNumbers == 1..(MaxBuilds + 1)

InitWait == Idle

NextWait ==
    \/ Server /\ UNCHANGED <<getVars, ioVars, waitVars, promVars, restVars>>
    \/ \E arg \in BuildNumbers \cup {NoNumber} :
         \E outcome \in LastBuildInfoOutcomes(Pipeline) \cup {None} :
           WaitCall(Pipeline, arg, outcome)
             /\ UNCHANGED <<getVars, serverVars, promVars, restVars>>
    \/ \E outcome \in BuildInfoOutcomes(waitPipeline, PolledNumber) :
         WaitPoll(outcome)
           /\ UNCHANGED <<getVars, serverVars, promVars, restVars>>
    \/ WaitWake /\ UNCHANGED <<getVars, serverVars, promVars, restVars>>

SpecWait == InitWait /\ [][NextWait]_vars

\* ------------------------------------------------------------------------
\* Claims about services.wait
\* ------------------------------------------------------------------------

\* What a call observed: a pending build, a finished one, one not started.
IsPending(o) == ~IsError(o) /\ Has(o, "finished") /\ o.finished = 0
IsFinished(o) == ~IsError(o) /\ Has(o, "finished") /\ o.finished # 0
IsNotStarted(o) == ~IsError(o) /\ ~Has(o, "finished")
ReturnedTrue ==
    waitPc = "returned" /\ waitResult = [kind |-> "value", value |-> TRUE]

\* C6: wait on an explicit build number. As long as every poll saw
\* finished = 0, wait has slept once per poll and has not returned; when k >= 1
\* such polls are followed by one that sees finished # 0, wait has returned
\* True, once, after exactly k sleeps and k+1 build_info calls for that build.
C6_PollsUntilFinished ==
    waitArg # NoNumber =>
      /\ (\A i \in 1..Len(apiCalls) : IsPending(apiCalls[i].outcome))
            => /\ sleeps = Len(apiCalls)
               /\ waitReturns = 0
               /\ waitPc \in {"idle", "poll", "sleeping"}
      /\ \A k \in 1..Len(apiCalls) :
            ( /\ Len(apiCalls) > k
              /\ \A i \in 1..k : IsPending(apiCalls[i].outcome)
              /\ IsFinished(apiCalls[k + 1].outcome) )
            => /\ ReturnedTrue
               /\ waitReturns = 1
               /\ sleeps = k
               /\ Len(apiCalls) = k + 1
               /\ \A i \in 1..(k + 1) :
                     /\ apiCalls[i].op = "build_info"
                     /\ apiCalls[i].number = waitArg

\* Two pending polls, then the finished one.
C6_Witness ==
    /\ waitArg # NoNumber
    /\ Len(apiCalls) = 3
    /\ IsPending(apiCalls[1].outcome)
    /\ IsPending(apiCalls[2].outcome)
    /\ IsFinished(apiCalls[3].outcome)
    /\ ReturnedTrue
    /\ sleeps = 2

C8_NoActiveJobs ==
    ( /\ waitArg = NoNumber
      /\ Len(apiCalls) >= 1
      /\ IsFinished(apiCalls[1].outcome) )
    => /\ ReturnedTrue
       /\ waitReturns = 1
       /\ Len(apiCalls) = 1
       /\ apiCalls[1].op = "last_build_info"
       /\ sleeps = 0
       /\ log = <<[msg |-> "no_active_jobs"]>>

\* The latest build finished, after an older one.
C8_Witness ==
    /\ waitArg = NoNumber
    /\ Len(apiCalls) = 1
    /\ IsFinished(apiCalls[1].outcome)
    /\ ReturnedTrue
    /\ apiCalls[1].outcome.number = 2

\* C9: wait without a build number, the latest build being pending, takes
\* that build's number as its target, and every later call is a build_info
\* for that number, whatever builds the server has created since.
C9_TargetResolvedOnce ==
    ( /\ waitArg = NoNumber
      /\ Len(apiCalls) >= 1
      /\ IsPending(apiCalls[1].outcome) )
    => /\ apiCalls[1].op = "last_build_info"
       /\ build_number = apiCalls[1].outcome.number
       /\ \A i \in 2..Len(apiCalls) :
             /\ apiCalls[i].op = "build_info"
             /\ apiCalls[i].number = apiCalls[1].outcome.number

\* A newer build appeared while build 1 was polled to its end.
C9_Witness ==
    /\ waitArg = NoNumber
    /\ Len(apiCalls) = 3
    /\ IsPending(apiCalls[1].outcome)
    /\ IsPending(apiCalls[2].outcome)
    /\ IsFinished(apiCalls[3].outcome)
    /\ build_number = 1
    /\ Len(builds) = 2
    /\ ReturnedTrue

\* C10: once a call of wait has observed finished # 0, wait has returned
\* True, whatever the status of the build.
C10_ReturnIgnoresStatus ==
    \A i \in 1..Len(apiCalls) :
        IsFinished(apiCalls[i].outcome) => ReturnedTrue

\* A polled build that ended killed.
C10_Witness ==
    /\ Len(apiCalls) >= 2
    /\ IsFinished(apiCalls[Len(apiCalls)].outcome)
    /\ apiCalls[Len(apiCalls)].outcome.status = "killed"
    /\ ReturnedTrue


InitPromote == Idle

NextPromote ==
    \/ Server /\ UNCHANGED <<getVars, ioVars, waitVars, promVars, restVars>>
    \/ \E env \in Environments, arg \in BuildNumbers \cup {NoNumber} :
         \E outcome \in LastSuccessOutcomes(Pipeline)
                          \cup BuildInfoOutcomes(Pipeline, arg) :
           PromoteCall(env, arg, outcome)
             /\ UNCHANGED <<getVars, serverVars, waitVars, restVars>>
    \/ \E answer \in Answers :
         \E outcome \in PromoteOutcomes(Pipeline, promNumber) \cup {None} :
           PromoteAnswer(answer, outcome)
             /\ UNCHANGED <<getVars, waitVars, restVars>>

SpecPromote == InitPromote /\ [][NextPromote]_vars

\* ------------------------------------------------------------------------
\* Claims about services.promote
\* ------------------------------------------------------------------------

HasPromoteCall == \E i \in 1..Len(apiCalls) : apiCalls[i].op = "promote"

\* C1: when the build that promote fetched or resolved has a status other
\* than success, promote has raised DronePromoteError with the build number,
\* the environment and that status, and Drone.promote was not called.
C1_RejectsUnsuccessfulBuild ==
    ( /\ promPc # "idle"
      /\ ~IsError(apiCalls[1].outcome)
      /\ apiCalls[1].outcome.status # "success" )
    => /\ promPc = "raised"
       /\ promResult = [kind |-> "DronePromoteError",
                        build |-> apiCalls[1].outcome.number,
                        environment |-> environment,
                        status |-> apiCalls[1].outcome.status]
       /\ ~HasPromoteCall
       /\ askLog = <<>>

\* An explicit build number whose build was killed.
C1_Witness ==
    /\ promPc = "raised"
    /\ promArg # NoNumber
    /\ ~IsError(apiCalls[1].outcome)
    /\ apiCalls[1].outcome.status = "killed"

\* C2: when ask has answered False, promote has returned None, without an
\* exception, and Drone.promote was not called.
C2_DeclinedReturnsNone ==
    ( /\ Len(askLog) >= 1
      /\ askLog[1].answer = FALSE )
    => /\ promPc = "returned"
       /\ promResult = None
       /\ ~HasPromoteCall
       /\ Len(apiCalls) = 1

\* The operator typed "Y" for a successful build.
C2_Witness ==
    /\ Len(askLog) = 1
    /\ askLog[1].input = "Y"
    /\ promPc = "returned"
    /\ promBuild.status = "success"

\* C11: when the resolved build succeeded and ask answered True, promote has
\* called Drone.promote exactly once, with the resolved build number and
\* the requested environment, and what Drone.promote gave back is the
\* outcome of promote: the number the server assigned to the new promote
\* build is returned.
C11_PromotesOnceAndReturnsNumber ==
    ( /\ Len(askLog) >= 1
      /\ askLog[1].answer = TRUE
      /\ promBuild.status = "success" )
    => /\ Len(apiCalls) = 2
       /\ apiCalls[2].op = "promote"
       /\ apiCalls[2].pipeline = Pipeline
       /\ apiCalls[2].number = apiCalls[1].outcome.number
       /\ apiCalls[2].environment = environment
       /\ promResult = apiCalls[2].outcome
       /\ IF apiCalls[2].outcome = DroneAPIError
          THEN promPc = "raised"
          ELSE /\ promPc = "returned"
               /\ promResult.value \in 1..Len(builds)
               /\ builds[promResult.value].event = "promote"
               /\ builds[promResult.value].parent = apiCalls[2].number
               /\ builds[promResult.value].deploy_to = environment

\* Build 1 was promoted to production when a second build existed: the
\* promote build got the number 3, which is what promote returned.
C11_Witness ==
    /\ promPc = "returned"
    /\ Len(askLog) = 1 /\ askLog[1].answer = TRUE
    /\ environment = "production"
    /\ apiCalls[2].number = 1
    /\ promResult = [kind |-> "value", value |-> 3]

\* C12: a promote without a build number resolves the newest build that
\* succeeded on a push to master, whatever newer builds there are on other
\* branches or with other events, and promotes that build; when no build
\* matches, it raises and promotes nothing.
C12_PromotesLastSuccessOnMaster ==
    [][ /\ ( /\ promPc = "idle" /\ promPc' # "idle"
             /\ promArg' = NoNumber
             /\ apiCalls'[1].outcome # DroneAPIError )
           => LET found == apiCalls'[1].outcome
                  good(b) == /\ b.status = "success"
                             /\ b.target = "master"
                             /\ b.event = "push"
              IN IF \E n \in 1..Len(builds) : good(builds[n])
                 THEN /\ found \in {builds[n] : n \in 1..Len(builds)}
                      /\ good(found)
                      /\ \A m \in (found.number + 1)..Len(builds) :
                            ~good(builds[m])
                      /\ promNumber' = found.number
                 ELSE /\ found = [kind |-> "DroneBuildError",
                                  branch |-> "master"]
                      /\ promPc' = "raised"
        /\ ( /\ promArg = NoNumber
             /\ Len(apiCalls') > Len(apiCalls)
             /\ apiCalls'[Len(apiCalls')].op = "promote" )
           => apiCalls'[Len(apiCalls')].number = apiCalls[1].outcome.number
      ]_vars

\* Build 1 was resolved and promoted although build 2 is a newer build on
\* another branch.
C12_Witness ==
    /\ promPc = "returned"
    /\ promArg = NoNumber
    /\ HasPromoteCall
    /\ apiCalls[2].number = 1
    /\ Len(builds) >= 2
    /\ builds[2].target = "feat/1"
    /\ builds[2].event = "push"
    /\ builds[2].status = "success"

\* ------------------------------------------------------------------------
\* The methods of the Drone adapter, each called once on a history the
\* server has built
\* ------------------------------------------------------------------------

InitDrone == Idle

NextDrone ==
    \/ droneOp = None /\ Server
         /\ UNCHANGED <<getVars, ioVars, waitVars, promVars, restVars>>
    \/ \E script \in Scripts :
         DroneCheckConfiguration(script)
           /\ UNCHANGED <<getVars, waitVars, promVars, fleetVars,
                          cliVars, storeVars,
                          wireVars, groupVars>>
    \/ \E n \in BuildNumbers, script \in Scripts :
         DroneBuildInfo(n, script)
           /\ UNCHANGED <<getVars, waitVars, promVars, fleetVars,
                          cliVars, storeVars,
                          wireVars, groupVars>>
    \/ \E script \in Scripts :
         DroneLastBuildInfo(script)
           /\ UNCHANGED <<getVars, waitVars, promVars, fleetVars,
                          cliVars, storeVars,
                          wireVars, groupVars>>
    \/ \E branch \in Targets, script \in Scripts :
         DroneLastSuccessBuildInfo(branch, script)
           /\ UNCHANGED <<getVars, waitVars, promVars, fleetVars,
                          cliVars, storeVars,
                          wireVars, groupVars>>

SpecDrone == InitDrone /\ [][NextDrone]_vars

\* The call was answered with a 200 by one of its requests.
Answered ==
    /\ droneOp # None
    /\ droneOp.attempts # <<>>
    /\ droneOp.attempts[Len(droneOp.attempts)] =
         [kind |-> "response", status_code |-> 200]

\* ------------------------------------------------------------------------
\* Claims about the methods of the Drone adapter
\* ------------------------------------------------------------------------

C14_LastBuildIsPositionZero ==
    ( /\ Answered
      /\ droneOp.op = "last_build_info"
      /\ build_history # <<>> )
    => droneResult = BuildInfo(build_history[1])

\* C15: when none of its requests is answered with a 200, because the
\* requests fail or because the build does not exist, build_info raises the
\* DroneBuildError that names the build number and the pipeline, and
\* nothing else.
C15_BuildInfoFailsWithBuildError ==
    ( /\ droneOp # None
      /\ droneOp.op = "build_info"
      /\ ~Answered )
    => droneResult = DroneBuildError(droneOp.pipeline, droneOp.number)

\* C16: check_configuration logs "Drone: OK" and returns when a request was
\* answered with a 200, and only then; on every failure of the call, be it
\* for the status codes or for exceptions of the network on every request,
\* it raises DroneConfigurationError.
C16_CheckConfigurationRaisesOnAnyFailure ==
    ( /\ droneOp # None
      /\ droneOp.op = "check_configuration" )
    => IF Answered
       THEN /\ droneResult = None
            /\ log = <<[level |-> "info", msg |-> "Drone: OK"]>>
       ELSE /\ droneResult = DroneConfigurationError
            /\ \A i \in 1..Len(log) : log[i].msg # "Drone: OK"

\* ------------------------------------------------------------------------
\* The AWS adapter, project_status and the verify command, each called once
\* ------------------------------------------------------------------------

InitFleet == Idle

NextFleet ==
    \/ \E loaded \in Configs, groups \in SUBSET GroupNames :
         ProjectStatus(loaded, groups)
           /\ UNCHANGED <<getVars, serverVars, apiCalls, sleeps, waitVars,
                          promVars, droneVars, storeVars,
                          wireVars, groupVars>>
    \/ \E outcome \in AwsCheckOutcomes :
         AwsCheckConfiguration(outcome)
           /\ UNCHANGED <<getVars, serverVars, apiCalls, sleeps, waitVars,
                          promVars, droneVars, storeVars,
                          wireVars, groupVars>>
    \/ \E script \in Scripts, outcome \in AwsCheckOutcomes :
         Verify(script, outcome)
           /\ UNCHANGED <<getVars, serverVars, apiCalls, sleeps, waitVars,
                          promVars, droneVars, storeVars,
                          wireVars, groupVars>>

SpecFleet == InitFleet /\ [][NextFleet]_vars

\* AWS.check_configuration ran and its describe_regions call failed.
AwsCheckFailed ==
    /\ awsCalls # <<>>
    /\ awsCalls[1].op = "check_configuration"
    /\ awsCalls[1].name # "ok"

Logged(level, msg) ==
    \E i \in 1..Len(log) : log[i] = [level |-> level, msg |-> msg]

DeclaredName(id, env) ==
    LET name == GetAutoscalerName(config, id, env)
    IN ~IsError(name) /\ name.type = "str"

\* C18: whenever project_status returns, its result has the two keys
\* Production and Staging, in that order; an environment whose group name
\* is missing or not a string has the empty entry, and the other one has
\* been looked up and has the information of its group.
C18_StatusCoversBothEnvironments ==
    ( statusResult # None /\ statusResult.kind = "value" )
    => LET project == statusResult.value
           id == get_active_project(config).value
           entry(i, env) ==
               /\ project[i].environment \in {"Production", "Staging"}
               /\ Lower(project[i].environment) = env
               /\ IF DeclaredName(id, env)
                  THEN LET name == GetAutoscalerName(config, id, env).value
                       IN /\ project[i].autoscaler_info = AutoscalerInfo(name)
                          /\ \E c \in 1..Len(awsCalls) :
                               awsCalls[c].name = name
                  ELSE project[i].autoscaler_info = EmptyInfo
       IN /\ Len(project) = 2
          /\ project[1].environment = "Production"
          /\ project[2].environment = "Staging"
          /\ entry(1, "production")
          /\ entry(2, "staging")

\* Production has no usable group name and staging has one: the status has
\* the empty entry for Production and staging's group for Staging.
C18_Witness ==
    /\ statusResult # None /\ statusResult.kind = "value"
    /\ statusResult.value[1] =
         [environment |-> "Production", autoscaler_info |-> EmptyInfo]
    /\ statusResult.value[2] =
         [environment |-> "Staging",
          autoscaler_info |-> AutoscalerInfo("staging_autoscaler")]

\* C19: when get_autoscaling_group raises AWSStateError for the group of an
\* environment, project_status still returns a status of the two
\* environments, with the empty entry for that environment.
C19_MissingGroupIsEmptyEntry ==
    ( /\ statusResult # None
      /\ \E c \in 1..Len(awsCalls) :
           awsCalls[c].outcome = AWSStateError(awsCalls[c].name) )
    => /\ statusResult.kind = "value"
       /\ Len(statusResult.value) = 2
       /\ \A c \in 1..Len(awsCalls) :
            awsCalls[c].outcome = AWSStateError(awsCalls[c].name)
            => \E i \in 1..2 :
                 /\ Lower(statusResult.value[i].environment) \o "_autoscaler"
                      = awsCalls[c].name
                 /\ statusResult.value[i].autoscaler_info = EmptyInfo

\* ------------------------------------------------------------------------
\* The wait and promote commands, one command on a running server
\* ------------------------------------------------------------------------

InitCli == Idle

\* The server as the commands meet it: the builds of pushes, which start and
\* end in success or in failure. It is followed before the command and
\* while the command waits for a build.
CliServer ==
    /\ cliCmd = None \/ waitPc \in {"poll", "sleeping"}
    /\ \/ \E target \in Targets : ServerCreate("push", target)
       \/ \E n \in 1..MaxBuilds : ServerStart(n)
       \/ \E n \in 1..MaxBuilds, status \in {"success", "failure"} :
            ServerFinish(n, status)

NextCli ==
    \/ CliServer
         /\ UNCHANGED <<getVars, ioVars, waitVars, promVars, restVars>>
    \/ \E loaded \in CliConfigs, arg \in BuildNumbers \cup {NoNumber} :
         \E outcome \in LastBuildInfoOutcomes(Pipeline) \cup {None} :
           CliWait(loaded, arg, outcome)
             /\ UNCHANGED <<getVars, serverVars, promVars, droneVars,
                            storeVars,
                          wireVars, groupVars>>
    \/ \E loaded \in CliConfigs, env \in Environments, wait \in BOOLEAN,
          arg \in BuildNumbers \cup {NoNumber} :
         \E outcome \in LastSuccessOutcomes(Pipeline)
                          \cup BuildInfoOutcomes(Pipeline, arg) :
           CliPromote(loaded, env, wait, arg, outcome)
             /\ UNCHANGED <<getVars, serverVars, waitVars, droneVars,
                            storeVars,
                          wireVars, groupVars>>
    \/ \E answer \in CliAnswers :
         \E outcome \in PromoteOutcomes(Pipeline, promNumber) \cup {None} :
           PromoteAnswer(answer, outcome)
             /\ UNCHANGED <<getVars, waitVars, restVars>>
    \/ \E outcome \in {DroneAPIError, None} :
         CliPromoted(outcome)
           /\ UNCHANGED <<getVars, serverVars, promVars, droneVars,
                            storeVars,
                          wireVars, groupVars>>
    \/ \E outcome \in BuildInfoOutcomes(waitPipeline, PolledNumber) :
         WaitPoll(outcome)
           /\ UNCHANGED <<getVars, serverVars, promVars, restVars>>
    \/ WaitWake /\ UNCHANGED <<getVars, serverVars, promVars, restVars>>
    \/ CliWaited /\ UNCHANGED <<getVars, serverVars, promVars, droneVars,
                            storeVars,
                          wireVars, groupVars>>

SpecCli == InitCli /\ [][NextCli]_vars

\* The errors the services and the Drone adapter raise to end a command.
FatalKinds ==
    {"DroneAPIError", "DroneBuildError", "DronePromoteError", "ConfigError"}

\* The fatal error the command met, None if it met none.
CliError ==
    IF cliCmd = None \/ cliExit = NoNumber THEN None
    ELSE IF waitPc = "raised" /\ waitResult.kind \in FatalKinds
    THEN waitResult
    ELSE IF promPc = "raised" /\ promResult.kind \in FatalKinds
    THEN promResult
    ELSE IF ActivePipeline(config).kind \in FatalKinds
    THEN ActivePipeline(config)
    ELSE None

\* C20: when a wait or promote command meets one of the fatal errors
\* (DroneAPIError, DroneBuildError, DronePromoteError, ConfigError), the
\* command catches it, logs it as an error and exits with status 1; the
\* error does not leave the command.
C20_FatalErrorsAreCaught ==
    CliError # None
    => /\ cliExit = 1
       /\ cliRaised = None
       /\ log # <<>>
       /\ log[Len(log)] = [level |-> "error", msg |-> CliError.kind]

\* C21: when the promote command runs with the wait flag and the promotion
\* was confirmed and returned a build number, services.wait is called with
\* that build number and with the pipeline the promotion was made on.
C21_WaitsForPromoteBuildOnSamePipeline ==
    ( /\ cliCmd # None /\ cliCmd.name = "promote" /\ cliCmd.wait
      /\ promPc = "returned" /\ promResult # None
      /\ waitPc # "idle" )
    => /\ waitArg = promResult.value
       /\ \E i \in 1..Len(apiCalls) :
            /\ apiCalls[i].op = "promote"
            /\ waitPipeline = apiCalls[i].pipeline

\* C22: services.ask answers True exactly when the input is the string
\* "yes" or the string "y", compared case-sensitively: the empty input and
\* the upper-case inputs "Y" and "YES" are answered False.
C22_AskAcceptsOnlyYesAndY ==
    \A i \in 1..Len(askLog) :
        /\ askLog[i].answer = TRUE
             <=> (askLog[i].input = "yes" \/ askLog[i].input = "y")
        /\ askLog[i].input \in {"", "Y", "YES"} => askLog[i].answer = FALSE

\* The operator typed "YES" and the promotion was declined.
C22_Witness ==
    /\ Len(askLog) = 1
    /\ askLog[1].input = "YES"
    /\ askLog[1].answer = FALSE
    /\ promPc = "returned"
    /\ promResult = None

\* ------------------------------------------------------------------------
\* The active project: one run of the program on a configuration file
\* ------------------------------------------------------------------------

InitStore == Idle

NextStore ==
    \/ \E written \in Configs :
         ConfigStart(written)
           /\ UNCHANGED <<getVars, serverVars, apiCalls, sleeps, waitVars,
                          promVars, droneVars, wireVars, groupVars>>
    \/ GetActiveProject
         /\ UNCHANGED <<getVars, serverVars, apiCalls, sleeps, waitVars,
                        promVars, droneVars, wireVars, groupVars>>
    \/ \E project_id \in ProjectIds \cup {"missing_project"} :
         SetActiveProject(project_id)
           /\ UNCHANGED <<getVars, serverVars, apiCalls, sleeps, waitVars,
                          promVars, droneVars, wireVars, groupVars>>
    \/ ConfigReload
         /\ UNCHANGED <<getVars, serverVars, apiCalls, sleeps, waitVars,
                        promVars, droneVars, wireVars, groupVars>>

SpecStore == InitStore /\ [][NextStore]_vars

\* The call of get_active_project at position i of the run.
IsGetActive(i) == configLog[i].op = "get_active_project"
NoActive(conf) ==
    ~Has(conf, "active_project") \/ conf.active_project = PyNone
ProjectCount(conf) ==
    IF Has(conf, "projects")
    THEN Cardinality({ p.id : p \in conf.projects }) ELSE 0

\* C23: when active_project is missing or None, get_active_project returns
\* the only configured project if there is exactly one, and raises
\* ConfigError if there is no project, no projects key, or more than one;
\* when active_project names a configured project, that name is returned.
C23_ActiveProjectFallsBackToOnlyProject ==
    \A i \in 1..Len(configLog) :
      IsGetActive(i) =>
        LET conf == configLog[i].conf
            result == configLog[i].result
        IN /\ (NoActive(conf) /\ ProjectCount(conf) = 1)
                => \E p \in conf.projects : result = Value(p.id)
           /\ (NoActive(conf) /\ ProjectCount(conf) # 1)
                => result.kind = "ConfigError"
           /\ ( /\ ~NoActive(conf) /\ Has(conf, "projects")
                /\ \E p \in conf.projects : p.id = conf.active_project )
                => result = Value(conf.active_project)

\* With active_project: null and the single project test_project_1 the
\* call returned test_project_1.
C23_Witness ==
    \E i \in 1..Len(configLog) :
        /\ IsGetActive(i)
        /\ Has(configLog[i].conf, "active_project")
        /\ configLog[i].conf.active_project = PyNone
        /\ ProjectCount(configLog[i].conf) = 1
        /\ configLog[i].result = Value("test_project_1")

\* The call at position i is a set_active_project that succeeded.
IsSetActive(i) ==
    /\ configLog[i].op = "set_active_project"
    /\ configLog[i].result = None

\* C24: after set_active_project(config, p) succeeded, the configuration
\* was saved with active_project = p, and get_active_project returns p on
\* the configuration in memory and on a configuration reloaded from the
\* saved file.
C24_SetActiveProjectIsSavedAndRead ==
    \A i \in 1..Len(configLog) :
      IsSetActive(i) =>
        LET p == configLog[i].project_id
        IN /\ i = Len(configLog) =>
                /\ Has(config, "active_project")
                /\ config.active_project = p
                /\ HasEntry(configFile, "active_project")
                /\ EntryOf(configFile, "active_project").text = p
                /\ Resolve(EntryOf(configFile, "active_project")) = "str"
                /\ YamlLoad(ConfigPath, configFile).active_project = p
           /\ (i + 1 <= Len(configLog) /\ IsGetActive(i + 1))
                => configLog[i + 1].result = Value(p)
           /\ ( /\ i + 2 <= Len(configLog)
                /\ configLog[i + 1].op = "load"
                /\ IsGetActive(i + 2) )
                => /\ configLog[i + 2].conf.active_project = p
                   /\ configLog[i + 2].result = Value(p)

\* test_project_2 was activated where test_project_1 was active, the file
\* was loaded again and the active project read from it.
C24_Witness ==
    /\ Len(configLog) = 3
    /\ IsSetActive(1)
    /\ configLog[1].project_id = "test_project_2"
    /\ Has(configLog[1].conf, "active_project")
    /\ configLog[1].conf.active_project = "test_project_1"
    /\ configLog[2].op = "load"
    /\ IsGetActive(3)
    /\ configLog[3].result = Value("test_project_2")

\* ------------------------------------------------------------------------
\* More claims about services.wait
\* ------------------------------------------------------------------------

\* The polls of the loop that found the build pending, and the "Waiting for
\* job" messages.
PendingPolls(calls) ==
    { i \in 1..Len(calls) : /\ calls[i].op = "build_info"
                            /\ IsPending(calls[i].outcome) }
WaitingMessages(logged) ==
    { j \in 1..Len(logged) : logged[j].msg = "waiting" }

\* C25: in a wait invocation the "Waiting for job #N started by a <event>
\* event by <trigger>" message is emitted exactly once if some poll found
\* finished == 0, by the first such poll and for the build it returned, and
\* never otherwise; later pending polls emit nothing.
C25_WaitingMessageOnFirstPendingPoll ==
    [][ /\ Cardinality(WaitingMessages(log')) =
             (IF PendingPolls(apiCalls') # {} THEN 1 ELSE 0)
        /\ WaitingMessages(log') # WaitingMessages(log)
             => /\ PendingPolls(apiCalls) = {}
                /\ PendingPolls(apiCalls') = {Len(apiCalls')}
                /\ log' = Append(log,
                     [msg |-> "waiting",
                      number |-> apiCalls'[Len(apiCalls')].outcome.number,
                      event |-> apiCalls'[Len(apiCalls')].outcome.event,
                      trigger |-> apiCalls'[Len(apiCalls')].outcome.trigger])
      ]_vars

\* Two polls found the build pending and one message was logged.
C25_Witness ==
    /\ Cardinality(PendingPolls(apiCalls)) >= 2
    /\ Cardinality(WaitingMessages(log)) = 1
    /\ waitPc = "sleeping"

\* ------------------------------------------------------------------------
\* More claims about services.promote
\* ------------------------------------------------------------------------

\* The first adapter call of promote gave a build, and it succeeded.
Validated ==
    /\ Len(apiCalls) >= 1
    /\ ~IsError(apiCalls[1].outcome)
    /\ apiCalls[1].outcome.status = "success"

\* C26: in a promote invocation the build is resolved or fetched first,
\* then its status is validated, then ask is called, then Drone.promote:
\* ask is called exactly once when the status is success and never when the
\* validation fails, Drone.promote is called only after ask returned True,
\* and promote ends with the new build number, with None after a refusal,
\* or with a raised error.
C26_PromoteStepsInOrder ==
    /\ promPc \in {"idle", "asking", "returned", "raised"}
    /\ promPc # "idle" =>
         /\ Len(apiCalls) >= 1
         /\ apiCalls[1].op \in {"build_info", "last_success_build_info"}
         /\ \A i \in 2..Len(apiCalls) : apiCalls[i].op = "promote"
    /\ promPc = "asking" => (Validated /\ askLog = <<>> /\ Len(apiCalls) = 1)
    /\ (promPc \in {"returned", "raised"} /\ Validated) => Len(askLog) = 1
    /\ (promPc # "idle" /\ ~Validated) => (askLog = <<>> /\ promPc = "raised")
    /\ HasPromoteCall =>
         /\ Len(apiCalls) = 2
         /\ Len(askLog) = 1
         /\ askLog[1].answer = TRUE
    /\ promPc = "returned" =>
         \/ /\ promResult = None
            /\ askLog[1].answer = FALSE
         \/ /\ promResult # None
            /\ promResult.kind = "value"
            /\ HasPromoteCall
            /\ promResult = apiCalls[2].outcome
    /\ promPc = "raised" =>
         /\ promResult # None
         /\ promResult.kind \in {"DroneBuildError", "DroneAPIError",
                                 "DronePromoteError"}

\* The build was resolved, validated, confirmed with "yes" and promoted.
C26_Witness ==
    /\ promPc = "returned"
    /\ promArg = NoNumber
    /\ Len(apiCalls) = 2
    /\ apiCalls[1].op = "last_success_build_info"
    /\ apiCalls[2].op = "promote"
    /\ askLog = <<[input |-> "yes", answer |-> TRUE]>>
    /\ promResult = [kind |-> "value", value |-> 2]

\* ------------------------------------------------------------------------
\* The requests of one wait or promote invocation
\* ------------------------------------------------------------------------

InitWire == Idle

WireRest ==
    <<getVars, droneVars, fleetVars, cliVars, storeVars, groupVars>>

NextWire ==
    \/ PushServer
         /\ UNCHANGED <<ioVars, waitVars, promVars, wireVars, WireRest>>
    \/ \E site \in Sites, env \in Environments \cup {""},
          arg \in BuildNumbers \cup {NoNumber},
          answer \in CliAnswers \cup {""} :
         WireSend(site, env, arg, answer) /\ UNCHANGED WireRest
    \/ WireFail /\ UNCHANGED WireRest
    \/ WireResend /\ UNCHANGED WireRest
    \/ /\ callPc # None
       /\ \E outcome \in WireOutcomes(callPc) :
            WireReturn(outcome) /\ UNCHANGED WireRest
    \/ \E arg \in BuildNumbers : WireWaitNumber(arg) /\ UNCHANGED WireRest
    \/ \E answer \in CliAnswers : WireDecline(answer) /\ UNCHANGED WireRest
    \/ WaitWake /\ UNCHANGED <<promVars, serverVars, wireVars, WireRest>>

SpecWire == InitWire /\ [][NextWire]_vars

\* C27: within one wait or promote invocation the requests to the build
\* API are strictly sequential: at most one request is outstanding at any
\* moment, a request is sent only when none is outstanding, and an adapter
\* call completes only when its last request was answered or failed.
C27_RequestsAreSequential ==
    [][ /\ outstanding' \in {0, 1}
        /\ outstanding' > outstanding => outstanding = 0
        /\ Len(apiCalls') > Len(apiCalls) => outstanding' = 0
      ]_vars

\* The second adapter call of a wait has its third request on the wire.
C27_Witness ==
    /\ outstanding = 1
    /\ callPc # None
    /\ callPc.site = "build_info"
    /\ callPc.retry = 2
    /\ Len(apiCalls) = 1

\* ------------------------------------------------------------------------
\* AWS.get_autoscaling_group: one call
\* ------------------------------------------------------------------------

InitGroup == Idle

NextGroup ==
    \E autoscaling_name \in GroupNames :
      \E groups \in Descriptions(autoscaling_name) :
        GetAutoscalingGroup(autoscaling_name, groups)
          /\ UNCHANGED <<getVars, serverVars, apiCalls, sleeps, waitVars,
                         promVars, droneVars, storeVars, wireVars>>

SpecGroup == InitGroup /\ [][NextGroup]_vars

\* get_autoscaling_group was called.
GroupCalled == awsCalls # <<>> /\ groupResult # None

\* C28 as stated: get_autoscaling_group raises AWSStateError whenever the
\* name does not resolve to exactly one group, when none is returned and
\* when more than one is returned.
C28_RaisesUnlessExactlyOneGroup ==
    (GroupCalled /\ Len(described) # 1)
    => groupResult = AWSStateError(awsCalls[1].name)

\* C28, amended: get_autoscaling_group raises AWSStateError exactly when
\* describe_auto_scaling_groups returns no group; when more than one group
\* is returned no AWSStateError is raised and, unless an instance without
\* launch data raises KeyError, the first group is described.
C28_RaisesOnlyWhenNoGroup ==
    GroupCalled =>
      /\ groupResult = AWSStateError(awsCalls[1].name) <=> described = <<>>
      /\ ( /\ Len(described) > 1
           /\ Has(described[1].launch, "LaunchConfigurationName")
           /\ groupResult # KeyError ) =>
             /\ groupResult.kind = "value"
             /\ groupResult.value.template =
                  described[1].launch.LaunchConfigurationName
             /\ Len(groupResult.value.instances) = Len(described[1].Instances)

\* Two groups were returned and the information of the first was given.
C28_Witness ==
    /\ GroupCalled
    /\ Len(described) = 2
    /\ described[2] = OtherGroup
    /\ groupResult.kind = "value"
    /\ groupResult.value.template = "launch-config-name"
    /\ Len(groupResult.value.instances) = 1

\* The template an instance was launched from, told from its own data.
OwnTemplate(instance_data) ==
    IF Has(instance_data.launch, "LaunchConfigurationName")
    THEN IF instance_data.launch.LaunchConfigurationName = LongName
         THEN LongName35
         ELSE instance_data.launch.LaunchConfigurationName
    ELSE LongName35 \o ":1"

\* C29: for the group that was resolved get_autoscaling_group returns one
\* entry per instance of the group, in the order of the group, each with
\* the instance's id, the Status "<HealthStatus>/<LifecycleState>" and the
\* template of the instance itself, and describe_instances was called once
\* for every instance, in that order.
C29_OneEntryPerInstanceInOrder ==
    (GroupCalled /\ groupResult.kind = "value") =>
      LET instances == described[1].Instances
          entries == groupResult.value.instances
      IN /\ Len(entries) = Len(instances)
         /\ \A i \in 1..Len(instances) :
              /\ entries[i].Instance = instances[i].InstanceId
              /\ entries[i].Status =
                   instances[i].HealthStatus \o "/"
                       \o instances[i].LifecycleState
              /\ entries[i].Template = OwnTemplate(instances[i])
         /\ Len(awsCalls) = 1 + Len(instances)
         /\ \A i \in 1..Len(instances) :
              awsCalls[i + 1] = [op |-> "describe_instances",
                                 name |-> instances[i].InstanceId]

\* A group with two instances, i-2 before i-1, of different status and
\* template, neither the template of the group.
C29_Witness ==
    /\ GroupCalled
    /\ groupResult.kind = "value"
    /\ groupResult.value.template = "launch-config-name"
    /\ Len(groupResult.value.instances) = 2
    /\ groupResult.value.instances[1].Instance = "i-2"
    /\ groupResult.value.instances[1].Status = "Unhealthy/Terminating"
    /\ groupResult.value.instances[1].Template = "old-launch-config-name"
    /\ groupResult.value.instances[2].Instance = "i-1"
    /\ groupResult.value.instances[2].Status = "Healthy/InService"
    /\ groupResult.value.instances[2].Template = LongName35

\* ------------------------------------------------------------------------
\* services.wait without a bound on the polls: the loop polls as long as
\* the build is pending, and the build that was started ends
\* ------------------------------------------------------------------------

InitWaitLive == Idle

LiveRest == <<getVars, promVars, restVars>>

NextWaitLive ==
    \/ PushServer /\ UNCHANGED <<ioVars, waitVars, LiveRest>>
    \/ \E arg \in BuildNumbers \cup {NoNumber} :
         \E outcome \in LastBuildInfoOutcomes(Pipeline) \cup {None} :
           WaitCall(Pipeline, arg, outcome)
             /\ UNCHANGED <<serverVars, LiveRest>>
    \/ \E outcome \in BuildInfoOutcomes(waitPipeline, PolledNumber) :
         WaitPoll(outcome) /\ UNCHANGED <<serverVars, LiveRest>>
    \/ WaitWake /\ UNCHANGED <<serverVars, LiveRest>>
    \/ WaitForget /\ UNCHANGED <<serverVars, LiveRest>>

\* The loop runs: a poll that can be made is made, a sleep ends, and the
\* server ends the build the wait is about once it runs.
FairWaitLive ==
    /\ WF_vars(\E outcome \in BuildInfoOutcomes(waitPipeline, PolledNumber) :
                 WaitPoll(outcome) /\ UNCHANGED <<serverVars, LiveRest>>)
    /\ WF_vars(WaitWake /\ UNCHANGED <<serverVars, LiveRest>>)
    /\ WF_vars(WaitForget /\ UNCHANGED <<serverVars, LiveRest>>)
    /\ WF_vars(\E status \in {"success", "failure"} :
                 /\ waitPc \in {"poll", "sleeping"}
                 /\ ServerFinish(build_number, status)
                 /\ UNCHANGED <<ioVars, waitVars, LiveRest>>)

SpecWaitLive == InitWaitLive /\ [][NextWaitLive]_vars /\ FairWaitLive

\* The call a poll has just put on record.
LastCall(calls) == calls[Len(calls)]

\* C30: wait has no timeout. A poll that succeeds and finds finished == 0
\* never returns: it is followed by one sleep, and the sleep by the next
\* poll, one build_info call per pass. If the build ends, or has no finished
\* field, and no call fails, wait returns True: a wait that polls
\* eventually returns True unless a call raised.
C30_WaitsWhilePendingThenReturns ==
    /\ [][ /\ (waitPc = "poll" /\ waitPc' # "poll") =>
                /\ Len(apiCalls') = Len(apiCalls) + 1
                /\ LastCall(apiCalls').op = "build_info"
                /\ LastCall(apiCalls').number = build_number
                /\ IsPending(LastCall(apiCalls').outcome) =>
                     /\ waitPc' = "sleeping"
                     /\ sleeps' = sleeps + 1
                     /\ waitReturns' = waitReturns
           /\ (waitPc = "sleeping" /\ waitPc' # "sleeping") =>
                /\ waitPc' = "poll"
                /\ apiCalls' = apiCalls
                /\ sleeps' = sleeps
         ]_vars
    /\ (waitPc \in {"poll", "sleeping"})
         ~> (ReturnedTrue \/ waitPc = "raised")

\* A wait without build number polls on: the record holds MaxPolls
\* build_info calls, the call of last_build_info already dropped, each found
\* the build pending, and the wait sleeps.
C30_Witness ==
    /\ waitArg = NoNumber
    /\ waitPc = "sleeping"
    /\ Len(apiCalls) >= 3
    /\ \A i \in 1..Len(apiCalls) :
         /\ apiCalls[i].op = "build_info"
         /\ IsPending(apiCalls[i].outcome)

\* ------------------------------------------------------------------------
\* Drone.get where every request that is sent is answered or fails
\* ------------------------------------------------------------------------

InitGetLive == Idle

NextGetLive ==
    \/ \E url \in Urls, method \in Methods :
         GetCall(url, method)
           /\ UNCHANGED <<serverVars, ioVars, waitVars, promVars, restVars>>
    \/ \E outcome \in AttemptOutcomes :
         GetAttempt(outcome)
           /\ UNCHANGED <<serverVars, ioVars, waitVars, promVars, restVars>>

\* The loop runs on: the request of a pass is answered or raises.
FairGetLive ==
    WF_vars(\E outcome \in AttemptOutcomes :
              GetAttempt(outcome)
                /\ UNCHANGED <<serverVars, ioVars, waitVars, promVars,
                               restVars>>)

SpecGetLive == InitGetLive /\ [][NextGetLive]_vars /\ FairGetLive

\* C31: Drone.get always terminates. Whatever the requests answer (200,
\* another status, a network exception) it issues at most five requests,
\* never sleeps, and ends by returning the 200 response of its last request
\* or by raising.
C31_GetTerminatesWithinFiveRequests ==
    /\ [](/\ Len(attempts) <= 5
          /\ sleeps = 0
          /\ getPc = "loop" => (retry = Len(attempts) /\ retry < 5)
          /\ getPc = "returned" =>
               /\ attempts[Len(attempts)].kind = "response"
               /\ attempts[Len(attempts)].status_code = 200
               /\ getResult = attempts[Len(attempts)]
          /\ getPc = "raised" =>
               /\ Len(attempts) = 5
               /\ getResult # None
               /\ getResult.kind # "response")
    /\ (getPc = "loop") ~> (getPc \in {"returned", "raised"})

\* A network exception, then failed responses up to the fifth request: get
\* raised.
C31_Witness ==
    /\ getPc = "raised"
    /\ Len(attempts) = 5
    /\ attempts[1] = RequestException
    /\ attempts[3] = RequestException
    /\ attempts[5].kind = "response"
    /\ attempts[5].status_code # 200

\* ------------------------------------------------------------------------
\* Claims about the errors of services.wait
\* ------------------------------------------------------------------------

\* C32: when a build_info call of the polling loop fails, after any number
\* of polls that found the build pending, wait raises the error that
\* build_info raised, unchanged: that call is its last, no sleep follows it,
\* and wait does not return True.
C32_PollFailurePropagates ==
    \A k \in 1..Len(apiCalls) :
      ( /\ apiCalls[k].op = "build_info"
        /\ IsError(apiCalls[k].outcome) )
      => /\ waitPc = "raised"
         /\ waitResult = apiCalls[k].outcome
         /\ Len(apiCalls) = k
         /\ waitReturns = 0
         /\ sleeps = Cardinality({ i \in 1..(k - 1) :
                                     /\ apiCalls[i].op = "build_info"
                                     /\ IsPending(apiCalls[i].outcome) })

\* Two polls found the build pending and the third build_info raised.
C32_Witness ==
    /\ Len(apiCalls) = 3
    /\ apiCalls[1].op = "build_info" /\ IsPending(apiCalls[1].outcome)
    /\ apiCalls[2].op = "build_info" /\ IsPending(apiCalls[2].outcome)
    /\ apiCalls[3].op = "build_info"
    /\ apiCalls[3].outcome = DroneBuildError(Pipeline, waitArg)
    /\ waitPc = "raised"
    /\ sleeps = 2

\* C33: wait without a build number, the latest build having no finished
\* field, reports the build as not started and returns True; it neither
\* fails nor reports that there are no active jobs.
C33_LatestNotStartedReturns ==
    ( /\ waitArg = NoNumber
      /\ Len(apiCalls) >= 1
      /\ apiCalls[1].op = "last_build_info"
      /\ IsNotStarted(apiCalls[1].outcome) )
    => /\ ReturnedTrue
       /\ log = <<[msg |-> "not_started",
                   number |-> apiCalls[1].outcome.number]>>

\* ------------------------------------------------------------------------
\* Claims about the errors of services.promote
\* ------------------------------------------------------------------------

\* C34: when resolving the build fails in promote (build_info raises
\* DroneBuildError for the number given, or last_success_build_info raises
\* because no build matches or the requests fail), promote raises that
\* error, and neither ask nor Drone.promote is called.
C34_ResolveFailurePropagates ==
    ( /\ Len(apiCalls) >= 1
      /\ apiCalls[1].op \in {"build_info", "last_success_build_info"}
      /\ IsError(apiCalls[1].outcome) )
    => /\ promPc = "raised"
       /\ promResult = apiCalls[1].outcome
       /\ askLog = <<>>
       /\ Len(apiCalls) = 1
       /\ log = <<>>

\* No build number was given and no successful push build on master
\* exists, though the pipeline has a build.
C34_Witness ==
    /\ promArg = NoNumber
    /\ Len(builds) >= 1
    /\ Len(apiCalls) = 1
    /\ apiCalls[1].outcome = [kind |-> "DroneBuildError", branch |-> "master"]
    /\ promPc = "raised"
    /\ promResult = [kind |-> "DroneBuildError", branch |-> "master"]

\* ------------------------------------------------------------------------
\* More claims about the promote command
\* ------------------------------------------------------------------------

\* C35: when the operator declines the confirmation of a promote command
\* run with the wait flag, the command ends without waiting: the resolving
\* call stays the only call to the build server, wait is not entered and
\* no sleep is made.
C35_DeclinedPromoteDoesNotWait ==
    ( /\ cliCmd # None /\ cliCmd.name = "promote" /\ cliCmd.wait
      /\ Len(askLog) = 1 /\ askLog[1].answer = FALSE )
    => /\ Len(apiCalls) = 1
       /\ waitPc = "idle"
       /\ sleeps = 0

\* C36: in one confirmed promote invocation the promote POST is sent to the
\* server exactly once: a POST on the wire is always the first request of
\* the promote call, also after a POST that was answered with another
\* status than 200 or whose connection failed.
C36_PromotePostSentOnce ==
    ( /\ callPc # None
      /\ callPc.site = "promote"
      /\ callPc.state = "sent" )
    => callPc.retry = 0

\* ------------------------------------------------------------------------
\* More claims about the active project
\* ------------------------------------------------------------------------

\* The project id is not among the projects of the configuration.
NotConfigured(conf, project_id) ==
    ~Has(conf, "projects") \/ project_id \notin ProjectKeys(conf)

\* C37: set_active_project with a project id that is not configured raises
\* ConfigError and leaves the configuration as it was: the configuration in
\* memory is the one of before the call, nothing is saved, so the file
\* still holds what was loaded, and no activation is logged.
C37_SetUnknownProjectRaisesConfigError ==
    \A i \in 1..Len(configLog) :
      ( /\ configLog[i].op = "set_active_project"
        /\ NotConfigured(configLog[i].conf, configLog[i].project_id) )
      => /\ configLog[i].result # None
         /\ configLog[i].result.kind = "ConfigError"
         /\ i = Len(configLog) => config = configLog[i].conf
         /\ i = 1 => /\ YamlLoad(ConfigPath, configFile) = configLog[i].conf
                     /\ log = <<>>

DroneCheckLogs ==
    { i \in 1..Len(log) : log[i].msg \in {"Drone: OK", "Drone: KO"} }
AwsCheckLogs ==
    { i \in 1..Len(log) : log[i].msg \in {"AWS: OK", "AWS: KO"} }

\* C39: verify runs the Drone check first and the AWS check second and
\* stops at the first failure: the AWS check runs only after the Drone
\* check passed, a Drone check that did not pass ends the command with
\* status 1 without any AWS call, a failed AWS check after a passed Drone
\* check ends it with status 1 too, and status 0 needs both checks passed.
C39_VerifyFailsFast ==
    (cliCmd # None /\ cliCmd.name = "verify")
    => /\ \A i \in DroneCheckLogs, j \in AwsCheckLogs : i < j
       /\ Len(awsCalls) <= 1
       /\ awsCalls # <<>> => Logged("info", "Drone: OK")
       /\ ~Logged("info", "Drone: OK")
            => awsCalls = <<>> /\ AwsCheckLogs = {} /\ cliExit = 1
       /\ (awsCalls # <<>> /\ awsCalls[1].name # "ok") => cliExit = 1
       /\ cliExit \in {0, 1}
       /\ cliExit = 0
            => /\ Logged("info", "Drone: OK")
               /\ awsCalls # <<>> /\ awsCalls[1].name = "ok"

\* The Drone check passed, then describe_regions failed in the AWS check,
\* and verify ended with status 1.
C39_Witness ==
    /\ cliCmd # None /\ cliCmd.name = "verify"
    /\ Logged("info", "Drone: OK")
    /\ Len(awsCalls) = 1
    /\ awsCalls[1].name = "ClientError"
    /\ Logged("error", "AWS: KO")
    /\ cliExit = 1

====
